---- MODULE Spec2Model ----
(***************************************************************************)
(* VocabMaster: the keyed word store (web: IndexedDB object store "words", *)
(* iOS: VocabStore.words), the Ebbinghaus review scheduler and the import  *)
(* of a backup payload.                                                    *)
(*                                                                         *)
(* Time is counted in ticks; one day is Day ticks.  A record is a function *)
(* from the names of the fields it carries to their values, so that a      *)
(* field a writer leaves out (JavaScript undefined) is out of its DOMAIN.  *)
(* Asynchronous handlers are split at their awaits on store transactions:  *)
(* each IndexedDB transaction is one atomic step.  Values of the fields    *)
(* other than word are numbers: a timestamp in ticks, a count, or the      *)
(* number of a URL or of a cached extras object; Null stands for null.     *)
(* The fields phonetic, meanings and translation are carried like audioUrl *)
(* by every writer but the import, which defaults them, and are left out.  *)
(***************************************************************************)
EXTENDS Integers, Sequences, FiniteSets, TLC

VARIABLES
    db,         \* web object store: lower-cased key -> record
    now,        \* the wall clock, Date.now()
    mark,       \* the markAsReviewed calls in flight
    imp,        \* the importWords call in flight
    written,    \* history: per key, the fields updateWord wrote since the record was put
    expectRC,   \* history: per key, reviewCount when put + reviews completed since
    overlap,    \* history: keys updated by another caller while a review of them was in flight
    words,      \* iOS VocabStore.words
    look,       \* the lookups (handleSearch calls) in flight
    ui,         \* what the search page shows, and currentSaveKey
    file,       \* the backup file written by the last export
    iosOut,     \* iOS: what the last handler reported to the user
    webOut,     \* web: what the last query returned to its caller
    disk,       \* iOS: the local file and its iCloud mirror
    panel,      \* web: the loadExtraPanel call in flight
    session,    \* web: the review queue, its index and its two counters
    retr        \* web: the search box and the handleRetranslate call in flight

vars == <<db, now, mark, imp, written, expectRC, overlap, words,
          look, ui, file, iosOut, webOut, disk, panel, session, retr>>

\* the variables of the panels, of the review page and of the retranslate
\* button
sideVars == <<panel, session, retr>>

\* the variables of the search page and of the backup file
pageVars == <<look, ui, file, iosOut, webOut, sideVars>>

\* ---------------------------------------------------------------- bounds
\* the last tick of the clock; ticks in a day; review calls in flight at
\* once; reviews of one record; records in a payload; records in the iOS
\* store; searches in flight at once; reviews of one record made one
\* after the other; characters in a typed text
MaxNow == 2
Day == 2
MaxCalls == 2
MaxReviews == 2
MaxPayload == 3
MaxWords == 4
MaxSearches == 2
MaxLadder == 7
MaxText == 3

\* ------------------------------------------------------------- constants
\* days until the next review of a mastered word
MasteredDays == 60

\* JavaScript null in a numeric field
Null == -1

REVIEW_INTERVALS == <<1 * Day, 2 * Day, 4 * Day, 7 * Day, 15 * Day, 30 * Day>>

Procs == 1 .. MaxCalls

\* Words as typed or as carried by a payload, and their keys.
RawWords == {"A", "b"}

ToLower(w) ==
    CASE w = "A" -> "a" [] w = "B" -> "b"
      [] w = "B." -> "b." [] w = "B!" -> "b!" [] OTHER -> w

Keys == {ToLower(w) : w \in RawWords}

\* The words reviewed and enriched; the other key is a bystander record.
ReviewWords == {"A"}

EmptyRec == [f \in {} |-> 0]

\* ------------------------------------------------------------ JS helpers
\* JavaScript truthiness of a stored value: 0, "", null are falsy.
Truthy(v) == v # 0 /\ v # Null

\* rec.f || d  for a numeric field
OrElse(rec, f, d) == IF f \in DOMAIN rec /\ Truthy(rec[f]) THEN rec[f] ELSE d

\* !entry.word
HasWord(entry) == "word" \in DOMAIN entry /\ entry.word # ""

\* the spread written the other way round: { ...updates, ...existing }
MergeSwapped(existing, updates) ==
    [f \in DOMAIN existing \cup DOMAIN updates |->
        IF f \in DOMAIN existing THEN existing[f] ELSE updates[f]]

\* { ...existing, ...updates }
Merge(existing, updates) ==
    [f \in DOMAIN existing \cup DOMAIN updates |->
        IF f \in DOMAIN updates THEN updates[f] ELSE existing[f]]

\* store.put(rec): the object store is keyed by rec.word (keyPath 'word')
Put(store, rec) ==
    [k \in DOMAIN store \cup {rec.word} |-> IF k = rec.word THEN rec ELSE store[k]]

\* store.delete(key)
Remove(store, key) == [k \in DOMAIN store \ {key} |-> store[k]]

\* ------------------------------------------------------------- scheduler
\* the interval the next review is always set to, whatever the level
getNextReviewDateFlat(level, t) == t + REVIEW_INTERVALS[1]

\* getNextReviewDate(level), the clock read being t
getNextReviewDate(level, t) ==
    IF level >= Len(REVIEW_INTERVALS)
    THEN t + MasteredDays * Day
    ELSE t + REVIEW_INTERVALS[level + 1]

\* the level markAsReviewed computes from the entry it read
NewLevel(level, remembered) ==
    IF remembered
    THEN IF level + 1 <= Len(REVIEW_INTERVALS) THEN level + 1 ELSE Len(REVIEW_INTERVALS)
    ELSE 0

\* the updates object of markAsReviewed; t1 is the clock read inside
\* getNextReviewDate, t2 the later read for lastReviewedAt
ReviewUpdates(entry, remembered, t1, t2) ==
    [level          |-> NewLevel(entry.level, remembered),
     reviewCount    |-> entry.reviewCount + 1,
     nextReviewAt   |-> getNextReviewDate(NewLevel(entry.level, remembered), t1),
     lastReviewedAt |-> t2]

\* ----------------------------------------------------------------- store
\* the entry saveWord builds from wordData
SavedEntry(wordData, t) ==
    [word         |-> ToLower(wordData.word),
     audioUrl     |-> OrElse(wordData, "audioUrl", Null),
     addedAt      |-> t,
     nextReviewAt |-> t + 1 * Day,
     reviewCount  |-> 0,
     level        |-> 0]

\* updateWord(word, updates): get and put in one readwrite transaction
updateWord(store, word, updates) ==
    IF ToLower(word) \in DOMAIN store
    THEN Put(store, Merge(store[ToLower(word)], updates))
    ELSE store

\* a review that writes back the copy it read: store.put({ ...entry, ...updates })
ReviewPutStale(store, word, entry, updates) ==
    IF ToLower(word) \in DOMAIN store THEN Put(store, Merge(entry, updates)) ELSE store

\* a review that puts its merged copy whether or not the record is there
ReviewPutAlways(store, word, entry, updates) == Put(store, Merge(entry, updates))

\* markAsReviewed's write: await updateWord(word, updates)
ReviewPut(store, word, entry, updates) == updateWord(store, word, updates)

\* history of the fields written to key since its record was put
Noted(hist, key, updates) ==
    IF key \in DOMAIN hist
    THEN [k \in DOMAIN hist |->
            IF k = key
            THEN [f \in DOMAIN hist[k] \cup DOMAIN updates |->
                    IF f \in DOMAIN updates THEN updates[f] ELSE hist[k][f]]
            ELSE hist[k]]
    ELSE hist

\* the object importWords puts for an entry whose key is new
ImportedEntry(entry, t) ==
    [word           |-> ToLower(entry.word),
     addedAt        |-> OrElse(entry, "addedAt", t),
     nextReviewAt   |-> OrElse(entry, "nextReviewAt", t + 1 * Day),
     reviewCount    |-> OrElse(entry, "reviewCount", 0),
     level          |-> OrElse(entry, "level", 0),
     lastReviewedAt |-> OrElse(entry, "lastReviewedAt", Null)]

\* -------------------------------------------------------------- resolver
\* A dictionary record is a function like a stored record; its meanings are
\* numbered by the provider they came from (0 for the empty list).  A
\* translation is a string.

\* dictData null, and a translation null
NoData == EmptyRec

NullStr == "<null>"

\* a promise that has not settled
Pending == [pending |-> TRUE]

PendingStr == "<pending>"

\* an exception leaving a function
Thrown == [thrown |-> TRUE]

ThrownStr == "<thrown>"

\* the string translateWord returns for a failed translation
Placeholder == "<unavailable>"

\* the texts typed into the search box, trimmed: a word, a phrase and a
\* Chinese expression, and their characters
ZhText == "zh"

Texts == {"A", "a b", ZhText}

Chars(text) ==
    CASE text = "A" -> <<"A">>
      [] text = "a b" -> <<"a", " ", "b">>
      [] text = ZhText -> <<"U+4F60", "U+597D">>
      [] OTHER -> <<text>>

\* the characters in \u4e00-\u9fff, \u3400-\u4dbf, \uf900-\ufaff
CJK == {"U+4F60", "U+597D", "U+F900"}

\* the scalars in 0x4E00...0x9FFF, 0x3400...0x4DBF
IOSCJK == {"U+4F60", "U+597D"}

\* what \s and String.prototype.trim take for white space
JSWhite == {" ", "LF"}

\* CharacterSet.whitespaces and CharacterSet.whitespacesAndNewlines
IOSWhitespaces == {" "}

IOSWhitespacesAndNewlines == {" ", "LF"}

\* a text without the characters of ws at its two ends
Trim(cs, ws) ==
    LET keep == {i \in 1 .. Len(cs) : cs[i] \notin ws}
    IN  IF keep = {} THEN <<>>
        ELSE SubSeq(cs, CHOOSE i \in keep : \A j \in keep : i <= j,
                        CHOOSE i \in keep : \A j \in keep : i >= j)

\* trimmed.split(/\s+/).length: one more than the runs of white space
SplitLength(cs) ==
    1 + Cardinality({i \in 1 .. Len(cs) :
                       cs[i] \in JSWhite /\ (i = 1 \/ cs[i - 1] \notin JSWhite)})

\* components(separatedBy: .whitespaces).filter { !$0.isEmpty }.count
IOSWordCount(cs) ==
    Cardinality({i \in 1 .. Len(cs) :
                   cs[i] \notin IOSWhitespaces
                   /\ (i = 1 \/ cs[i - 1] \in IOSWhitespaces)})

\* detectInputType(text) of dictionary.js, over the characters of the text
detectInputTypeOf(cs) ==
    LET trimmed == Trim(cs, JSWhite) IN
      IF \E i \in 1 .. Len(trimmed) : trimmed[i] \in CJK THEN "chinese"
      ELSE IF (\E i \in 1 .. Len(trimmed) : trimmed[i] \in JSWhite)
              /\ SplitLength(trimmed) > 1 THEN "phrase"
      ELSE "word"

detectInputType(text) == detectInputTypeOf(Chars(text))

\* DictionaryService.detectInputType(_:)
IOSDetectInputType(cs) ==
    LET trimmed == Trim(cs, IOSWhitespacesAndNewlines) IN
      IF \E i \in 1 .. Len(trimmed) : trimmed[i] \in IOSCJK THEN "chinese"
      ELSE IF IOSWordCount(trimmed) > 1 THEN "phrase"
      ELSE "word"

\* the characters typed: a letter, a space, a line feed, an ideograph and
\* a compatibility ideograph; and the texts of up to MaxText of them
Alphabet == {"a", " ", "LF", "U+4F60", "U+F900"}

TypedTexts == UNION {[1 .. n -> Alphabet] : n \in 0 .. MaxText}

\* what a provider call comes to: a usable answer; HTTP 404; another HTTP
\* status; fetch rejecting; a body that is not the JSON expected
DictOutcomes == {"hit", "notfound", "httperror", "transport", "unparsable"}

\* MyMemory: a translation; the input echoed back; the failures above
TransOutcomes == {"hit", "echo", "httperror", "transport", "unparsable"}

\* the LLM: a reply; a reply without content; the failures; no API key
LLMOutcomes == {"hit", "empty", "httperror", "transport", "unparsable", "nokey"}

\* a function body without its try/catch
NoCatch(r) == r

\* try { ... } catch (error) { return null }
Catch(r) == IF r = Thrown THEN NoData ELSE r

CatchStr(r) == IF r = ThrownStr THEN NullStr ELSE r

\* a lookup that takes a body it cannot parse for an entry without fields
lookupFreeDictionaryLoose(word, o) ==
    Catch(CASE o = "hit" -> [word |-> ToLower(word), audioUrl |-> 1,
                             meanings |-> 1, source |-> "free-dictionary"]
            [] o = "notfound" -> NoData
            [] o = "unparsable" -> [word |-> ToLower(word), audioUrl |-> Null,
                                    meanings |-> 0, source |-> "free-dictionary"]
            [] OTHER -> Thrown)

lookupFreeDictionary(word, o) ==
    Catch(CASE o = "hit" -> [word |-> ToLower(word), audioUrl |-> 1,
                             meanings |-> 1, source |-> "free-dictionary"]
            [] o = "notfound" -> NoData
            [] OTHER -> Thrown)

lookupWiktionary(text, o) ==
    Catch(CASE o = "hit" -> [word |-> ToLower(text), audioUrl |-> Null,
                             meanings |-> 2, source |-> "wiktionary"]
            [] o = "notfound" -> NoData
            [] OTHER -> Thrown)

\* the answers of MyMemory: Chinese for an English text, and English with a
\* capital and a full stop for the Chinese expression
Translated(text, langPair) ==
    IF langPair \in {"zh-CN|en", "zh|en"} THEN "B." ELSE "yi"

translateText(text, langPair, o) ==
    CatchStr(CASE o = "hit" -> Translated(text, langPair)
               [] o = "echo" -> NullStr
               [] OTHER -> ThrownStr)

\* result || placeholder
translateWord(text, o) ==
    LET result == translateText(text, "en|zh-CN", o)
    IN  IF result = NullStr THEN Placeholder ELSE result

translateChineseToEnglish(text, o) == translateText(text, "zh-CN|en", o)

\* the reply of the LLM, which translates towards the other language
LLMReply(text) == IF detectInputType(text) = "chinese" THEN "B!" ELSE "llm-yi"

translateWithDeepSeek(text, o) ==
    IF o = "nokey" THEN NullStr
    ELSE CatchStr(CASE o = "hit" -> LLMReply(text)
                    [] o = "empty" -> NullStr
                    [] OTHER -> ThrownStr)

createTranslationOnlyResult(text) ==
    [word |-> ToLower(text), audioUrl |-> Null, meanings |-> 0,
     source |-> "translation-only"]

\* replace(/[.!?,;:]+$/, '')
StripPunct(str) == CASE str = "b." -> "b" [] str = "b!" -> "b" [] OTHER -> str

\* englishTranslation.toLowerCase().trim().replace(...)
EnglishWord(englishTranslation) == StripPunct(ToLower(englishTranslation))

\* the characters of [.!?,;:]
Punct == {".", "!", "?", ",", ";", ":"}

\* toLowerCase() and lowercased(), character by character
LowerChars(cs) == [i \in 1 .. Len(cs) |-> IF cs[i] = "H" THEN "h" ELSE cs[i]]

\* replace(/[.!?,;:]+$/, ''): the text without its last run of punctuation
StripTrailing(cs) ==
    LET keep == {i \in 1 .. Len(cs) : cs[i] \notin Punct}
    IN  IF keep = {} THEN <<>>
        ELSE SubSeq(cs, 1, CHOOSE i \in keep : \A j \in keep : i >= j)

\* englishTranslation.toLowerCase().trim().replace(/[.!?,;:]+$/, '')
englishWordOf(cs) == StripTrailing(Trim(LowerChars(cs), JSWhite))

\* english.lowercased().trimmingCharacters(in: .whitespacesAndNewlines)
\* .replacingOccurrences(of: "[.!?,;:]+$", with: "", options: .regularExpression)
cleanEnglishOf(cs) ==
    StripTrailing(Trim(LowerChars(cs), IOSWhitespacesAndNewlines))

\* the translations a provider returns: a capital, a letter, a space and
\* two punctuation marks, up to MaxText characters
TranslationTexts == UNION {[1 .. n -> {"H", "a", " ", ".", "!"}] : n \in 0 .. MaxText}

\* { ...dictData, word: chineseText, originalWord: dictData.word }
Bridged(dictData, chineseText) ==
    Merge(dictData, [word |-> chineseText, originalWord |-> dictData.word])

\* both lookups starting at Wiktionary
FirstTierWiki(type) == "wiktionary"

\* both lookups falling back to Wiktionary
SecondTierWiki(type) == "wiktionary"

\* the first and the second dictionary of handleWordLookup and of
\* handlePhraseLookup
FirstTier(type) == IF type = "phrase" THEN "wiktionary" ELSE "free-dictionary"

SecondTier(type) == IF type = "phrase" THEN "free-dictionary" ELSE "wiktionary"

Dictionary(tier, text, o) ==
    IF tier = "free-dictionary" THEN lookupFreeDictionary(text, o)
    ELSE lookupWiktionary(text, o)

\* Promise.race: the continuation running when the first promise has settled
JoinedAny(l) == l.dict # Pending \/ l.trans # PendingStr

\* Promise.all: the continuation runs when every promise has settled
Joined(l) == l.dict # Pending /\ l.trans # PendingStr

\* the outcomes that are an exception inside the function that fetches
Failures == {"httperror", "transport", "unparsable"}

\* a lookupWord call at its start; calls, hits, erred and stale are history:
\* the tiers consulted in order, the providers that had a usable answer,
\* whether a fetch failed, and whether a later search has been issued
NewLookup(text) ==
    [pc |-> "start", text |-> text, type |-> detectInputType(text),
     dict |-> Pending, trans |-> PendingStr, result |-> NoData,
     calls |-> <<>>, hits |-> {}, erred |-> FALSE, stale |-> FALSE]

\* the calls in flight once a further search is issued
Superseded(lk) ==
    [q \in DOMAIN lk |->
        IF lk[q].pc = "idle" THEN lk[q] ELSE [lk[q] EXCEPT !.stale = TRUE]]

\* the history of a lookup after a provider came to outcome o
Seen(l, provider, o) ==
    [l EXCEPT !.hits = IF o = "hit" THEN @ \cup {provider} ELSE @,
              !.erred = @ \/ o \in Failures]

\* return { dictData, translation, inputType }
Returned(l, dictData, translation) ==
    [l EXCEPT !.pc = "returned",
              !.result = [dictData |-> dictData, translation |-> translation,
                          inputType |-> l.type]]

\* an exception leaves lookupWord
Throws(l) == [l EXCEPT !.pc = "thrown"]

\* ------------------------------------------------------------------ JSON
\* JSON.stringify of a record: its members, a name and a value each
Stringify(rec) == {<<f, rec[f]>> : f \in DOMAIN rec}

\* JSON.parse of the members of an object
Parse(members) ==
    [f \in {m[1] : m \in members} |-> (CHOOSE m \in members : m[1] = f)[2]]

\* the keys of the store in the order of its index, as getAll returns them
KeyOrder == <<"a", "a b", "b", "zh">>

\* getAllWords(): the records in key order
getAllWords(store) ==
    LET keys == SelectSeq(KeyOrder, LAMBDA k : k \in DOMAIN store)
    IN  [i \in 1 .. Len(keys) |-> store[keys[i]]]

\* the words array of the file exportAllWords downloads
ExportedWords(store) ==
    LET all == getAllWords(store)
    IN  [i \in 1 .. Len(all) |-> Stringify(all[i])]

\* what importWords reads back from a backup file
ReadBack(f) ==
    [parsed |-> TRUE, words |-> [i \in 1 .. Len(f) |-> Parse(f[i])]]

\* ------------------------------------------------------- scheduler queries
\* the filter on the timestamp alone
getDueWordsAnyLevel(store, t) ==
    SelectSeq(getAllWords(store), LAMBDA w : w.nextReviewAt <= t)

\* allWords.filter((w) => w.nextReviewAt <= now && w.level < REVIEW_INTERVALS.length)
getDueWords(store, t) ==
    SelectSeq(getAllWords(store),
              LAMBDA w : w.nextReviewAt <= t /\ w.level < Len(REVIEW_INTERVALS))

\* Math.min(...timestamps) of a non-empty array
RECURSIVE MathMin(_)
MathMin(ts) ==
    IF Len(ts) = 1 THEN ts[1]
    ELSE LET m == MathMin(Tail(ts)) IN IF ts[1] <= m THEN ts[1] ELSE m

\* the timestamp of the first future word instead of the least
getNextReviewTimeFirst(store, t) ==
    LET futureWords ==
            SelectSeq(getAllWords(store),
                      LAMBDA w : w.nextReviewAt > t /\ w.level < Len(REVIEW_INTERVALS))
    IN  IF Len(futureWords) = 0 THEN Null ELSE futureWords[1].nextReviewAt

\* getNextReviewTime(): null for no future word
getNextReviewTime(store, t) ==
    LET futureWords ==
            SelectSeq(getAllWords(store),
                      LAMBDA w : w.nextReviewAt > t /\ w.level < Len(REVIEW_INTERVALS))
    IN  IF Len(futureWords) = 0 THEN Null
        ELSE MathMin([i \in 1 .. Len(futureWords) |-> futureWords[i].nextReviewAt])

\* EbbinghausManager.intervals, in the unit of Day
intervals == <<1 * Day, 2 * Day, 4 * Day, 7 * Day, 15 * Day, 30 * Day>>

\* EbbinghausManager.dueWords(from: words), Date() being t
dueWords(ws, t) ==
    SelectSeq(ws, LAMBDA w : w.nextReviewAt <= t /\ w.level < Len(intervals))

\* getReviewStats(): the four counts over getAllWords()
getReviewStats(store, t) ==
    LET allWords == getAllWords(store)
        total    == Len(allWords)
        mastered == Len(SelectSeq(allWords,
                                  LAMBDA w : w.level >= Len(REVIEW_INTERVALS)))
        due      == Len(SelectSeq(allWords,
                                  LAMBDA w : w.nextReviewAt <= t
                                             /\ w.level < Len(REVIEW_INTERVALS)))
    IN  [total |-> total, mastered |-> mastered, due |-> due,
         learning |-> total - mastered]

\* the statistics with every word whose date has passed counted as due
statsDueAnyLevel(ws, t) ==
    LET total    == Len(ws)
        mastered == Len(SelectSeq(ws, LAMBDA w : w.level >= Len(intervals)))
        due      == Len(SelectSeq(ws, LAMBDA w : w.nextReviewAt <= t))
    IN  [total |-> total, mastered |-> mastered, due |-> due,
         learning |-> total - mastered]

\* EbbinghausManager.stats(from: words), Date() being t
stats(ws, t) ==
    LET total    == Len(ws)
        mastered == Len(SelectSeq(ws, LAMBDA w : w.level >= Len(intervals)))
        due      == Len(dueWords(ws, t))
    IN  [total |-> total, mastered |-> mastered, due |-> due,
         learning |-> total - mastered]

\* ---------------------------------------------------------------- inputs
\* what handleSearch hands to saveWord
WordDatas == {[word |-> w, audioUrl |-> 1] : w \in RawWords}

\* the updates of the caller of updateWord other than the scheduler: an
\* extras-cache fill
\* the panels of a result (antonyms is handled as synonyms is) and the
\* field of the record that caches each: `${type}Data`
ExtraTypes == {"conjugations", "synonyms"}

CacheKey(type) == IF type = "conjugations" THEN "conjugationsData" ELSE "synonymsData"

\* what the LLM call of fetchWordExtras comes to: a reply that parses; no
\* API key; a reply JSON.parse rejects; fetch rejecting
ExtraOutcomes == {"hit", "nokey", "unparsable", "transport"}

\* fetchWordExtras(word, type): the parsed data, or null
fetchWordExtras(o) == IF o = "hit" THEN 1 ELSE Null

AppUpdates == {[conjugationsData |-> 1]}

\* records of a backup payload: a mixed-case key with a level beyond the
\* table, an audio URL and cached extras; a plain record; a record without
\* a word
PayA == [word |-> "A", level |-> 9, reviewCount |-> 1, nextReviewAt |-> 1,
         lastReviewedAt |-> 1, addedAt |-> 1, audioUrl |-> 1,
         conjugationsData |-> 1]

PayB == [word |-> "b", level |-> 3, reviewCount |-> 0, nextReviewAt |-> 9,
         lastReviewedAt |-> Null, addedAt |-> 1]

PayNoWord == [level |-> 1, reviewCount |-> 0]

PayloadEntries == {PayA, PayB, PayNoWord}

Payloads == UNION {[1 .. n -> PayloadEntries] : n \in 1 .. MaxPayload}

\* the files handed to importWords: text that JSON.parse rejects, a parsed
\* payload without records, and the payloads above
WebFiles ==
    {[parsed |-> FALSE, words |-> <<>>]}
        \cup {[parsed |-> TRUE, words |-> pl] : pl \in Payloads \cup {<<>>}}

\* records of a backup made in the past: a record due at level 5, a
\* mastered record whose timestamp has passed, a record that falls due at
\* the second tick
DueA == [word |-> "A", level |-> 5, reviewCount |-> 1, nextReviewAt |-> 1,
         lastReviewedAt |-> 1, addedAt |-> 1]

DueB == [word |-> "b", level |-> 6, reviewCount |-> 1, nextReviewAt |-> 1,
         lastReviewedAt |-> 1, addedAt |-> 1]

DueC == [word |-> "b", level |-> 1, reviewCount |-> 1, nextReviewAt |-> 2,
         lastReviewedAt |-> 1, addedAt |-> 1]

DueFiles == {[parsed |-> TRUE, words |-> pl] :
                pl \in {<<DueA, DueB>>, <<DueA, DueC>>, <<DueB>>}}

IdleCall == [pc |-> "idle"]

\* the keys with a review between its read and its write
InFlight == {ToLower(mark[p].word) : p \in {q \in DOMAIN mark : mark[q].pc = "write"}}

IdleImport == [pc |-> "idle", payload |-> <<>>, i |-> 1,
               imported |-> 0, skipped |-> 0, added |-> 0]

\* the handleSearch calls that can be in flight at once
Searches == 1 .. MaxSearches

\* the search page before any search: the welcome state, no word shown,
\* the messages of showError: for a Chinese text without a record, for a
\* word or phrase without a record, and for an exception
ErrorChinese == "<zh not translated>"

ErrorNotFound == "<not found>"

ErrorLookup == "<lookup failed>"

\* currentSaveKey null; latest is history, the text of the last search
BlankPage == [state |-> "welcome", shown |-> "", saveKey |-> "", latest |-> ""]

\* iOS: a location without a file
NoFile == [present |-> FALSE]

\* the two locations before the first write; last and gone are history:
\* how the last saveToDisk ended, and the keys it removed from the mirror
NoDisk == [local |-> NoFile, cloud |-> NoFile, last |-> "none", gone |-> {}]

\* the variables of the store and of the scheduler
storeVars == <<db, now, mark, imp, written, expectRC, overlap, words, disk>>

\* ------------------------------------------------------------------ Init
\* the review page before refreshReview: reviewQueue = [], reviewIndex = 0;
\* reviewed and complete are history: the words handed to markAsReviewed
\* and the counters renderReviewComplete was first called with
NoSession == [queue |-> <<>>, index |-> 0, remembered |-> 0, forgot |-> 0,
              reviewed |-> <<>>, complete |-> <<>>]

Init ==
    /\ db = EmptyRec
    /\ now = 1
    /\ mark = [p \in Procs |-> IdleCall]
    /\ imp = IdleImport
    /\ written = EmptyRec
    /\ expectRC = EmptyRec
    /\ overlap = {}
    /\ words = <<>>
    /\ look = [s \in Searches |-> IdleCall]
    /\ ui = BlankPage
    /\ file = <<>>
    /\ iosOut = [toast |-> "none"]
    /\ webOut = [op |-> "none"]
    /\ disk = NoDisk
    /\ panel = IdleCall
    /\ session = NoSession
    /\ retr = [pc |-> "idle", box |-> ""]

\* the clock advances
Tick ==
    /\ now < MaxNow
    /\ now' = now + 1
    /\ UNCHANGED <<db, mark, imp, written, expectRC, overlap, words, disk>>
    /\ UNCHANGED pageVars

\* saveWord(wordData): one put
SaveWord(wordData) ==
    /\ db' = Put(db, SavedEntry(wordData, now))
    /\ written' = Put(written, [word |-> ToLower(wordData.word)])
    /\ expectRC' = [k \in DOMAIN db' |->
                       IF k = ToLower(wordData.word) THEN 0 ELSE expectRC[k]]
    /\ overlap' = overlap \ {ToLower(wordData.word)}
    /\ UNCHANGED <<now, mark, imp, words, disk>>
    /\ UNCHANGED pageVars

\* deleteWord(word)
DeleteWord(w) ==
    /\ db' = Remove(db, ToLower(w))
    /\ written' = Remove(written, ToLower(w))
    /\ expectRC' = Remove(expectRC, ToLower(w))
    /\ overlap' = overlap \ {ToLower(w)}
    /\ UNCHANGED <<now, mark, imp, words, disk>>
    /\ UNCHANGED pageVars

\* updateWord(word, updates) called by an extras fill
UpdateWord(w, updates) ==
    /\ db' = updateWord(db, w, updates)
    /\ written' = Noted(written, ToLower(w), updates)
    /\ overlap' = IF ToLower(w) \in DOMAIN db /\ ToLower(w) \in InFlight
                  THEN overlap \cup {ToLower(w)} ELSE overlap
    /\ UNCHANGED <<now, mark, imp, expectRC, words, disk>>
    /\ UNCHANGED pageVars

\* markAsReviewed up to its await of updateWord: getAllWords, find, and the
\* updates computed from the entry found; the clock may tick between the
\* two Date.now() reads
MarkRead(p, w, remembered) ==
    /\ mark[p].pc = "idle"
    \* calls are numbered as they start; a call started while another is in
    \* flight is a second press on the same card (handleReviewAction reads
    \* reviewQueue[reviewIndex] before its await and advances it after)
    /\ \A q \in Procs : q < p => mark[q].pc # "idle"
    /\ \A q \in Procs : mark[q].pc # "idle" => mark[q].word = w
    /\ IF ToLower(w) \in DOMAIN db
       THEN /\ db[ToLower(w)].reviewCount < MaxReviews
            /\ \E d \in {0, 1} :
                 /\ now + d <= MaxNow
                 /\ now' = now + d
                 /\ mark' = [mark EXCEPT ![p] =
                       [pc |-> "write", word |-> w, remembered |-> remembered,
                        entry |-> db[ToLower(w)],
                        updates |-> ReviewUpdates(db[ToLower(w)], remembered,
                                                  now, now + d)]]
       ELSE UNCHANGED <<now, mark>>
    /\ UNCHANGED <<db, imp, written, expectRC, overlap, words, disk>>
    /\ UNCHANGED pageVars

\* markAsReviewed from its updateWord transaction on
MarkWrite(p) ==
    /\ mark[p].pc = "write"
    /\ db' = ReviewPut(db, mark[p].word, mark[p].entry, mark[p].updates)
    /\ written' = Noted(written, ToLower(mark[p].word), mark[p].updates)
    /\ expectRC' = [k \in DOMAIN expectRC |->
                       IF k = ToLower(mark[p].word) THEN expectRC[k] + 1
                       ELSE expectRC[k]]
    /\ mark' = [mark EXCEPT ![p] = IdleCall]
    /\ UNCHANGED <<now, imp, overlap, words, disk>>
    /\ UNCHANGED pageVars

\* importWords up to its loop: JSON.parse and the check of the record set
\* throw before the store is touched
ImportStart(f) ==
    /\ imp.pc \in {"idle", "done", "error"}
    /\ imp' = IF ~f.parsed \/ Len(f.words) = 0
              THEN [IdleImport EXCEPT !.pc = "error"]
              ELSE [IdleImport EXCEPT !.pc = "loop", !.payload = f.words]
    /\ UNCHANGED <<db, now, mark, written, expectRC, overlap, words, disk>>
    /\ UNCHANGED pageVars

\* the loop passing over an existing key without counting it
ImportCheckNoCount ==
    /\ imp.pc = "loop"
    /\ imp.i <= Len(imp.payload)
    /\ LET entry == imp.payload[imp.i] IN
         IF ~HasWord(entry) \/ ToLower(entry.word) \in DOMAIN db
         THEN imp' = [imp EXCEPT !.i = @ + 1]
         ELSE imp' = [imp EXCEPT !.pc = "put"]
    /\ UNCHANGED <<db, now, mark, written, expectRC, overlap, words, disk>>
    /\ UNCHANGED pageVars

\* one turn of the loop up to the result of getWord
ImportCheck ==
    /\ imp.pc = "loop"
    /\ imp.i <= Len(imp.payload)
    /\ LET entry == imp.payload[imp.i] IN
         IF ~HasWord(entry)
         THEN imp' = [imp EXCEPT !.i = @ + 1]
         ELSE IF ToLower(entry.word) \in DOMAIN db
              THEN imp' = [imp EXCEPT !.i = @ + 1, !.skipped = @ + 1]
              ELSE imp' = [imp EXCEPT !.pc = "put"]
    /\ UNCHANGED <<db, now, mark, written, expectRC, overlap, words, disk>>
    /\ UNCHANGED pageVars

\* the put transaction of an entry whose key getWord did not find
ImportPut ==
    /\ imp.pc = "put"
    /\ LET rec == ImportedEntry(imp.payload[imp.i], now) IN
         /\ db' = Put(db, rec)
         /\ written' = Put(written, [word |-> rec.word])
         /\ expectRC' = [k \in DOMAIN db' |->
                            IF k = rec.word THEN rec.reviewCount ELSE expectRC[k]]
         /\ overlap' = overlap \ {rec.word}
         /\ imp' = [imp EXCEPT !.pc = "loop", !.i = @ + 1, !.imported = @ + 1,
                       !.added = IF rec.word \in DOMAIN db THEN @ ELSE @ + 1]
    /\ UNCHANGED <<now, mark, words, disk>>
    /\ UNCHANGED pageVars

\* return { imported, skipped }
ImportDone ==
    /\ imp.pc = "loop"
    /\ imp.i > Len(imp.payload)
    /\ imp' = [imp EXCEPT !.pc = "done"]
    /\ UNCHANGED <<db, now, mark, written, expectRC, overlap, words, disk>>
    /\ UNCHANGED pageVars

\* handleSearch up to the start of its network lookup: the loading state,
\* getWord(text), and renderFromCache when the text is a stored key
SearchStart(s, text) ==
    /\ look[s].pc = "idle"
    /\ \A q \in Searches : q < s => look[q].pc # "idle"
    /\ IF ToLower(text) \in DOMAIN db
       THEN /\ ui' = [state |-> "result", shown |-> db[ToLower(text)].word,
                      saveKey |-> db[ToLower(text)].word, latest |-> text]
            /\ look' = Superseded(look)
       ELSE /\ ui' = [ui EXCEPT !.state = "loading", !.latest = text]
            /\ look' = [Superseded(look) EXCEPT ![s] =
                  IF detectInputType(text) = "chinese"
                  THEN [NewLookup(text) EXCEPT !.pc = "zh2en"]
                  ELSE [NewLookup(text) EXCEPT
                           !.pc = "join",
                           !.calls = <<FirstTier(detectInputType(text))>>]]
    /\ UNCHANGED <<storeVars, file, iosOut, webOut, sideVars>>

\* the dictionary fetch of Promise.all settles
DictSettles(s, o) ==
    /\ look[s].pc = "join"
    /\ look[s].dict = Pending
    /\ LET l == look[s] IN
         look' = [look EXCEPT ![s] =
           [Seen(l, FirstTier(l.type), o) EXCEPT
               !.dict = Dictionary(FirstTier(l.type), l.text, o)]]
    /\ UNCHANGED <<storeVars, ui, file, iosOut, webOut, sideVars>>

\* the translation fetch of Promise.all settles
TransSettles(s, o) ==
    /\ look[s].pc = "join"
    /\ look[s].trans = PendingStr
    /\ LET l == look[s] IN
         look' = [look EXCEPT ![s] =
           [Seen(l, "translation-only", o) EXCEPT
               !.trans = translateWord(l.text, o)]]
    /\ UNCHANGED <<storeVars, ui, file, iosOut, webOut, sideVars>>

\* the continuation of Promise.all, up to the next await
AfterJoin(s) ==
    /\ look[s].pc = "join"
    /\ Joined(look[s])
    /\ LET l == look[s] IN
         look' = [look EXCEPT ![s] =
           IF l.dict = Thrown \/ l.trans = ThrownStr THEN Throws(l)
           ELSE IF l.dict # NoData THEN [l EXCEPT !.pc = "defs"]
           ELSE [l EXCEPT !.pc = "second",
                          !.calls = Append(@, SecondTier(l.type))]]
    /\ UNCHANGED <<storeVars, ui, file, iosOut, webOut, sideVars>>

\* the second dictionary settles; on a miss the translation is tried, and
\* translateWithDeepSeek is called when it is not usable
SecondSettles(s, o) ==
    /\ look[s].pc = "second"
    /\ LET l == Seen(look[s], SecondTier(look[s].type), o)
           d == Dictionary(SecondTier(l.type), l.text, o)
       IN  look' = [look EXCEPT ![s] =
             IF d = Thrown THEN Throws(l)
             ELSE IF d # NoData THEN [l EXCEPT !.pc = "defs", !.dict = d]
             ELSE IF l.trans # NullStr /\ l.trans # Placeholder
                  THEN Returned([l EXCEPT !.calls = Append(@, "translation-only")],
                                createTranslationOnlyResult(l.text), l.trans)
                  ELSE [l EXCEPT !.pc = "llm",
                                 !.calls = @ \o <<"translation-only", "llm">>]]
    /\ UNCHANGED <<storeVars, ui, file, iosOut, webOut, sideVars>>

\* translateWithDeepSeek settles, the last tier
LLMSettles(s, o) ==
    /\ look[s].pc = "llm"
    /\ LET l == Seen(look[s], "llm", o)
           r == translateWithDeepSeek(l.text, o)
       IN  look' = [look EXCEPT ![s] =
             IF r = ThrownStr THEN Throws(l)
             ELSE IF r # NullStr
                  THEN Returned(l, Merge(createTranslationOnlyResult(l.text),
                                         [source |-> "deepseek"]), r)
                  ELSE Returned(l, NoData, l.trans)]
    /\ UNCHANGED <<storeVars, ui, file, iosOut, webOut, sideVars>>

\* translateDefinitions settles: every definition has its translationZh,
\* z telling whether they are translations or empty strings
DefsSettle(s, z) ==
    /\ look[s].pc = "defs"
    /\ LET l == look[s] IN
         look' = [look EXCEPT ![s] =
           Returned(l, Merge(l.dict, [defsZh |-> z]), l.trans)]
    /\ UNCHANGED <<storeVars, ui, file, iosOut, webOut, sideVars>>

\* handleChineseLookup: translateChineseToEnglish settles
ZhTranslates(s, o) ==
    /\ look[s].pc = "zh2en"
    /\ LET l == Seen(look[s], "zh2en", o)
           e == translateChineseToEnglish(l.text, o)
       IN  look' = [look EXCEPT ![s] =
             IF e = ThrownStr THEN Throws(l)
             ELSE IF e # NullStr
                  THEN [l EXCEPT !.pc = "zhdict", !.trans = e,
                                 !.calls = Append(@, "free-dictionary")]
                  ELSE [l EXCEPT !.pc = "zhllm", !.calls = Append(@, "llm")]]
    /\ UNCHANGED <<storeVars, ui, file, iosOut, webOut, sideVars>>

\* handleChineseLookup: the translateWithDeepSeek fallback settles
ZhLLMSettles(s, o) ==
    /\ look[s].pc = "zhllm"
    /\ LET l == Seen(look[s], "llm", o)
           e == translateWithDeepSeek(l.text, o)
       IN  look' = [look EXCEPT ![s] =
             IF e = ThrownStr THEN Throws(l)
             ELSE IF e = NullStr
                  THEN Returned(l, createTranslationOnlyResult(l.text), l.text)
                  ELSE [l EXCEPT !.pc = "zhdict", !.trans = e,
                                 !.calls = Append(@, "free-dictionary")]]
    /\ UNCHANGED <<storeVars, ui, file, iosOut, webOut, sideVars>>

\* handleChineseLookup: lookupFreeDictionary(englishWord) settles
ZhDictSettles(s, o) ==
    /\ look[s].pc = "zhdict"
    /\ LET l == Seen(look[s], "free-dictionary", o)
           d == lookupFreeDictionary(EnglishWord(l.trans), o)
       IN  look' = [look EXCEPT ![s] =
             IF d = Thrown THEN Throws(l)
             ELSE IF d # NoData THEN Returned(l, Bridged(d, l.text), l.trans)
             ELSE [l EXCEPT !.pc = "zhwiki", !.calls = Append(@, "wiktionary")]]
    /\ UNCHANGED <<storeVars, ui, file, iosOut, webOut, sideVars>>

\* handleChineseLookup: lookupWiktionary(englishWord) settles
ZhWikiSettles(s, o) ==
    /\ look[s].pc = "zhwiki"
    /\ LET l == Seen(look[s], "wiktionary", o)
           d == lookupWiktionary(EnglishWord(l.trans), o)
       IN  look' = [look EXCEPT ![s] =
             IF d = Thrown THEN Throws(l)
             ELSE IF d # NoData THEN Returned(l, Bridged(d, l.text), l.trans)
             ELSE Returned(l, createTranslationOnlyResult(l.text), l.trans)]
    /\ UNCHANGED <<storeVars, ui, file, iosOut, webOut, sideVars>>

\* handleSearch from the return of lookupWord to its saveWord: the error
\* state and its message for no dictData or an exception, else
\* currentSaveKey, the result of getWord(saveKey) and renderResult
Render(s) ==
    /\ look[s].pc \in {"returned", "thrown"}
    /\ IF look[s].pc = "thrown" \/ look[s].result.dictData = NoData
       THEN /\ ui' = [ui EXCEPT !.state = "error",
                                !.shown = IF look[s].pc = "thrown" THEN ErrorLookup
                                          ELSE IF look[s].result.inputType = "chinese"
                                          THEN ErrorChinese
                                          ELSE ErrorNotFound]
            /\ look' = [look EXCEPT ![s] = IdleCall]
       ELSE LET saveKey == look[s].result.dictData.word IN
            /\ ui' = [ui EXCEPT !.state = "result", !.shown = saveKey,
                                !.saveKey = saveKey]
            /\ look' = [look EXCEPT ![s] =
                  IF ToLower(saveKey) \in DOMAIN db THEN IdleCall
                  ELSE [@ EXCEPT !.pc = "save"]]
    /\ UNCHANGED <<storeVars, file, iosOut, webOut, sideVars>>

\* the auto-save of handleSearch: saveWord({ word: saveKey, ... })
SearchSave(s) ==
    /\ look[s].pc = "save"
    /\ LET dictData == look[s].result.dictData
           rec == SavedEntry([word |-> dictData.word,
                              audioUrl |-> dictData.audioUrl], now)
       IN  /\ db' = Put(db, rec)
           /\ written' = Put(written, [word |-> rec.word])
           /\ expectRC' = [k \in DOMAIN db' |->
                              IF k = rec.word THEN 0 ELSE expectRC[k]]
           /\ overlap' = overlap \ {rec.word}
    /\ look' = [look EXCEPT ![s] = IdleCall]
    /\ UNCHANGED <<now, mark, imp, words, disk, ui, file, iosOut, webOut, sideVars>>

\* the awaits of a lookup at which a fetch is outstanding
AwaitsFetch == {"join", "second", "llm", "zh2en", "zhllm", "zhdict", "zhwiki"}

\* the provider of an outstanding fetch never responds: fetch is called
\* without a signal and no timer is armed, so its promise never settles and
\* the await in lookupWord never resumes
Silent(s) ==
    /\ look[s].pc \in AwaitsFetch
    /\ look[s].pc = "join" => ~Joined(look[s])
    /\ look' = [look EXCEPT ![s] = [@ EXCEPT !.pc = "hung"]]
    /\ UNCHANGED <<storeVars, ui, file, iosOut, webOut, sideVars>>

\* history: the remembered reviews of each key since its record was saved,
\* Null once a review was not remembered or the record has another origin
Streak(out, key, entry, remembered) ==
    [k \in Keys |->
        LET before == IF out.op = "markAsReviewed" THEN out.streak[k] ELSE Null
        IN  IF k # key THEN before
            ELSE IF ~remembered THEN Null
            ELSE IF entry.reviewCount = 0 THEN 1
            ELSE IF before = Null THEN Null
            ELSE before + 1]

\* markAsReviewed(word, remembered) run with no other handler between its
\* getAllWords and its updateWord, as the reviews of a session made one
\* after the other are; it returns { ...entry, ...updates }
Review(w, remembered) ==
    /\ ToLower(w) \in DOMAIN db
    /\ db[ToLower(w)].reviewCount < MaxLadder
    /\ \A p \in Procs : mark[p].pc = "idle"
    /\ \E d \in {0, 1} :
         /\ now + d <= MaxNow
         /\ now' = now + d
         /\ LET entry == db[ToLower(w)]
                updates == ReviewUpdates(entry, remembered, now, now + d)
            IN  /\ db' = ReviewPut(db, w, entry, updates)
                /\ written' = Noted(written, ToLower(w), updates)
                /\ webOut' = [op |-> "markAsReviewed", at |-> now,
                              word |-> ToLower(w),
                              value |-> Merge(entry, updates),
                              streak |-> Streak(webOut, ToLower(w), entry, remembered)]
    /\ expectRC' = [k \in DOMAIN expectRC |->
                       IF k = ToLower(w) THEN expectRC[k] + 1 ELSE expectRC[k]]
    /\ UNCHANGED <<mark, imp, overlap, words, disk, look, ui, file, iosOut, sideVars>>

\* loadExtraPanel up to its fetch: the status guard, getWord(word) and the
\* cached data rendered, or the call of the LLM; calls is history
PanelOpen(w, type) ==
    /\ panel.pc # "loading"
    /\ ui.state = "result"
    /\ w = ui.shown
    /\ LET k == ToLower(w)
           cached == k \in DOMAIN db /\ CacheKey(type) \in DOMAIN db[k] IN
         panel' = IF cached
                  THEN [pc |-> "loaded", word |-> w, type |-> type, calls |-> 0,
                        data |-> db[k][CacheKey(type)]]
                  ELSE [pc |-> "loading", word |-> w, type |-> type, calls |-> 1,
                        data |-> Null]
    /\ UNCHANGED <<storeVars, look, ui, file, iosOut, webOut, session, retr>>

\* loadExtraPanel from the return of fetchWordExtras: updateWord and the
\* data rendered, or the error status
PanelSettles(o) ==
    /\ panel.pc = "loading"
    /\ LET data == fetchWordExtras(o)
           k == ToLower(panel.word)
           updates == CacheKey(panel.type) :> data IN
         IF data # Null
         THEN /\ db' = updateWord(db, panel.word, updates)
              /\ written' = Noted(written, k, updates)
              /\ overlap' = IF k \in DOMAIN db /\ k \in InFlight
                            THEN overlap \cup {k} ELSE overlap
              /\ panel' = [panel EXCEPT !.pc = "loaded", !.data = data]
         ELSE /\ UNCHANGED <<db, written, overlap>>
              /\ panel' = [panel EXCEPT !.pc = "error"]
    /\ UNCHANGED <<now, mark, imp, expectRC, words, disk>>
    /\ UNCHANGED <<look, ui, file, iosOut, webOut, session, retr>>

\* handleChineseLookup: the key looked up for a translation
Bridge(cs) ==
    /\ webOut' = [op |-> "englishWord", text |-> cs, value |-> englishWordOf(cs)]
    /\ UNCHANGED <<storeVars, look, ui, file, iosOut, sideVars>>

\* handleSearch: const inputType = detectInputType(text)
Classify(cs) ==
    /\ webOut' = [op |-> "detectInputType", text |-> cs,
                  value |-> detectInputTypeOf(cs)]
    /\ UNCHANGED <<storeVars, look, ui, file, iosOut, sideVars>>

\* getDueWords(): getAllWords, then the filter at Date.now()
DueQuery ==
    /\ webOut' = [op |-> "getDueWords", at |-> now, value |-> getDueWords(db, now)]
    /\ UNCHANGED <<storeVars, look, ui, file, iosOut, sideVars>>

\* refreshHistory: const stats = await getReviewStats()
StatsQuery ==
    /\ webOut' = [op |-> "getReviewStats", at |-> now,
                  value |-> getReviewStats(db, now)]
    /\ UNCHANGED <<storeVars, look, ui, file, iosOut, sideVars>>

\* getNextReviewTime(): getAllWords, then the filter and Math.min
NextReviewQuery ==
    /\ webOut' = [op |-> "getNextReviewTime", at |-> now,
                  value |-> getNextReviewTime(db, now)]
    /\ UNCHANGED <<storeVars, look, ui, file, iosOut, sideVars>>

\* exportAllWords(): throws on an empty store, else downloads the backup
Export ==
    /\ DOMAIN db # {}
    /\ file' = ExportedWords(db)
    /\ UNCHANGED <<db, now, mark, imp, written, expectRC, overlap, words, disk>>
    /\ UNCHANGED <<look, ui, iosOut, webOut, sideVars>>

\* openDB() on a profile that has no database yet: onupgradeneeded creates
\* the empty object store
NewProfile ==
    /\ db' = EmptyRec
    /\ written' = EmptyRec
    /\ expectRC' = EmptyRec
    /\ overlap' = {}
    /\ UNCHANGED <<now, mark, imp, words, disk>>
    /\ UNCHANGED pageVars

\* The store and the scheduler: every store operation of the web app but
\* the import, with up to MaxCalls reviews in flight.
Next ==
    \/ Tick
    \/ \E wd \in WordDatas : SaveWord(wd)
    \/ \E w \in RawWords : DeleteWord(w)
    \/ \E w \in ReviewWords, u \in AppUpdates : UpdateWord(w, u)
    \/ \E p \in Procs, w \in ReviewWords, r \in BOOLEAN : MarkRead(p, w, r)
    \/ \E p \in Procs : MarkWrite(p)

Spec == Init /\ [][Next]_vars

\* One review at a time among the saves, deletes and extras fills; the
\* extras fill reaches every key.
NextUpdate ==
    \/ Tick
    \/ \E wd \in WordDatas : SaveWord(wd)
    \/ \E w \in RawWords : DeleteWord(w)
    \/ \E w \in RawWords, u \in AppUpdates : UpdateWord(w, u)
    \/ \E w \in ReviewWords, r \in BOOLEAN : MarkRead(1, w, r)
    \/ MarkWrite(1)

SpecUpdate == Init /\ [][NextUpdate]_vars

\* The import among the saves and deletes of the other handlers.
NextImport ==
    \/ Tick
    \/ \E wd \in WordDatas : SaveWord(wd)
    \/ \E w \in RawWords : DeleteWord(w)
    \/ \E f \in WebFiles : ImportStart(f)
    \/ ImportCheck
    \/ ImportPut
    \/ ImportDone

SpecImport == Init /\ [][NextImport]_vars

\* A backup is restored and its words are reviewed.
NextRestore ==
    \/ Tick
    \/ \E f \in WebFiles : ImportStart(f)
    \/ ImportCheck
    \/ ImportPut
    \/ ImportDone
    \/ \E w \in ReviewWords, r \in BOOLEAN : MarkRead(1, w, r)
    \/ MarkWrite(1)

SpecRestore == Init /\ [][NextRestore]_vars

\* A store is built and reviewed, exported once, and the backup is imported
\* into the same store or into the empty store of a new profile; nothing
\* else touches the store after the export.
NextRoundTrip ==
    \/ Tick
    \/ file = <<>> /\ \E wd \in WordDatas : SaveWord(wd)
    \/ file = <<>> /\ \E w \in RawWords, u \in AppUpdates : UpdateWord(w, u)
    \/ file = <<>> /\ \E w \in RawWords, r \in BOOLEAN : MarkRead(1, w, r)
    \/ MarkWrite(1)
    \/ file = <<>> /\ mark[1].pc = "idle" /\ Export
    \/ file # <<>> /\ imp.pc = "idle" /\ NewProfile
    \/ file # <<>> /\ imp.pc = "idle" /\ ImportStart(ReadBack(file))
    \/ ImportCheck
    \/ ImportPut
    \/ ImportDone

SpecRoundTrip == Init /\ [][NextRoundTrip]_vars

\* ------------------------------------------------------------------- iOS
\* WordEntry.init(word:): the key is lower-cased
WordEntryInit(w, t) ==
    [word |-> ToLower(w), addedAt |-> t, nextReviewAt |-> t + 1 * Day,
     reviewCount |-> 0, level |-> 0]

\* decoded WordEntry values of a backup: Codable assigns the stored
\* properties as they are in the file
IOSPayA == [word |-> "A", addedAt |-> 1, nextReviewAt |-> 9,
            reviewCount |-> 1, level |-> 3]

IOSPayB == [word |-> "b", addedAt |-> 1, nextReviewAt |-> 2,
            reviewCount |-> 0, level |-> 0]

IOSPayloads == UNION {[1 .. n -> {IOSPayA, IOSPayB}] : n \in 1 .. MaxPayload}

\* the files picked for handleImport: data neither decoder accepts, a
\* decoded backup without records, and the backups above
IOSFiles ==
    {[parsed |-> FALSE, words |-> <<>>]}
        \cup {[parsed |-> TRUE, words |-> pl] : pl \in IOSPayloads \cup {<<>>}}

\* words.firstIndex(where: { $0.word == word.lowercased() }), 0 for nil
FirstIndex(ws, w) ==
    IF \E i \in 1 .. Len(ws) : ws[i].word = ToLower(w)
    THEN CHOOSE i \in 1 .. Len(ws) :
            /\ ws[i].word = ToLower(w)
            /\ \A j \in 1 .. i - 1 : ws[j].word # ToLower(w)
    ELSE 0

\* VocabStore.getWord(word) != nil
IOSHasWord(ws, w) == FirstIndex(ws, w) # 0

\* words.removeAll { $0.word == word.lowercased() }
RECURSIVE RemoveAll(_, _)
RemoveAll(ws, w) ==
    IF ws = <<>> THEN <<>>
    ELSE IF Head(ws).word = ToLower(w) THEN RemoveAll(Tail(ws), w)
         ELSE <<Head(ws)>> \o RemoveAll(Tail(ws), w)

\* the loop of importJSON over the decoded entries
RECURSIVE ImportLoop(_, _)
ImportLoop(ws, entries) ==
    IF entries = <<>> THEN ws
    ELSE IF IOSHasWord(ws, Head(entries).word)
         THEN ImportLoop(ws, Tail(entries))
         ELSE ImportLoop(Append(ws, Head(entries)), Tail(entries))

\* the number of entries of the loop of importJSON that are appended
RECURSIVE ImportCount(_, _)
ImportCount(ws, entries) ==
    IF entries = <<>> THEN 0
    ELSE IF IOSHasWord(ws, Head(entries).word)
         THEN ImportCount(ws, Tail(entries))
         ELSE 1 + ImportCount(Append(ws, Head(entries)), Tail(entries))

\* ------------------------------------------------------------ iOS files
\* the file JSONEncoder writes for a store; what JSONDecoder reads back
Encode(ws) == [i \in 1 .. Len(ws) |-> Stringify(ws[i])]

Decode(data) == [i \in 1 .. Len(data) |-> Parse(data[i])]

FileOf(ws) == [present |-> TRUE, data |-> Encode(ws)]

\* a file that neither decoder of decodeWords accepts
Corrupt == [present |-> TRUE, text |-> "?"]

\* decodeWords(from:): words is left as it is when decoding fails
decodeWords(f, ws) == IF "data" \in DOMAIN f THEN Decode(f.data) ELSE ws

\* how a saveToDisk ends: both writes succeed; the local write throws; the
\* mirror write throws; there is no ubiquity container
SaveOutcomes == {"ok", "localfail", "cloudfail", "nocloud"}

\* a mirror write that keeps the records the mirror alone holds
syncToICloudMerging(cloud, ws, o) ==
    IF o # "ok" THEN cloud
    ELSE LET old == decodeWords(cloud, <<>>)
         IN  FileOf(ws \o SelectSeq(old, LAMBDA r : ~IOSHasWord(ws, r.word)))

\* syncToICloud(data:): data.write(to: iCloudURL, options: .atomic)
syncToICloud(cloud, ws, o) == IF o = "ok" THEN FileOf(ws) ELSE cloud

\* the keys of a file that a store does not hold
KeysGone(f, ws) ==
    LET old == decodeWords(f, <<>>)
    IN  {old[i].word : i \in {j \in 1 .. Len(old) : ~IOSHasWord(ws, old[j].word)}}

\* saveToDisk(): encode, write the local file, then syncToICloud; a throw
\* is caught and printed
saveToDisk(d, ws, o) ==
    IF o = "localfail" THEN [d EXCEPT !.last = o, !.gone = {}]
    ELSE [local |-> FileOf(ws),
          cloud |-> syncToICloud(d.cloud, ws, o),
          last  |-> o,
          gone  |-> IF o = "ok" THEN KeysGone(d.cloud, ws) ELSE {}]

\* a load that tries the mirror first
loadFromDiskCloudFirst(d, o) ==
    IF d.cloud.present
    THEN [words |-> decodeWords(d.cloud, <<>>),
          disk  |-> saveToDisk(d, decodeWords(d.cloud, <<>>), o),
          from  |-> "cloud"]
    ELSE IF d.local.present
         THEN [words |-> decodeWords(d.local, <<>>), disk |-> d, from |-> "local"]
         ELSE [words |-> <<>>, disk |-> d, from |-> "none"]

\* loadFromDisk() at init: the local file if it can be read, else the
\* mirror followed by saveToDisk()
loadFromDisk(d, o) ==
    IF d.local.present
    THEN [words |-> decodeWords(d.local, <<>>), disk |-> d, from |-> "local"]
    ELSE IF d.cloud.present
         THEN [words |-> decodeWords(d.cloud, <<>>),
               disk  |-> saveToDisk(d, decodeWords(d.cloud, <<>>), o),
               from  |-> "cloud"]
         ELSE [words |-> <<>>, disk |-> d, from |-> "none"]

\* VocabStore.addWord(entry), its saveToDisk() ending as o
AddWord(w, o) ==
    /\ LET entry == WordEntryInit(w, now)
           index == FirstIndex(words, entry.word) IN
         IF index # 0
         THEN words' = [words EXCEPT ![index] = entry]
         ELSE /\ Len(words) < MaxWords
              /\ words' = Append(words, entry)
    /\ disk' = saveToDisk(disk, words', o)
    /\ UNCHANGED <<db, now, mark, imp, written, expectRC, overlap>>
    /\ UNCHANGED pageVars

\* EbbinghausManager.nextReviewDate(for: level), Date() being t
nextReviewDate(level, t) ==
    LET interval == IF level >= Len(intervals) THEN 60 * Day ELSE intervals[level + 1]
    IN  t + interval

\* EbbinghausManager.markReviewed(entry:remembered:); its two Date() reads
\* are t1 (inside nextReviewDate) and t2 (lastReviewedAt)
markReviewed(entry, remembered, t1, t2) ==
    LET level == IF remembered
                 THEN IF entry.level + 1 <= Len(intervals) THEN entry.level + 1
                      ELSE Len(intervals)
                 ELSE 0
    IN  [entry EXCEPT !.level = level,
                      !.reviewCount = @ + 1,
                      !.nextReviewAt = nextReviewDate(level, t1),
                      !.lastReviewedAt = t2]

\* VocabStore.updateWord(word) { markReviewed(entry: &$0, remembered:) }
IOSReview(w, remembered, o) ==
    /\ LET index == FirstIndex(words, w) IN
         /\ index # 0
         /\ words[index].reviewCount < MaxReviews
         /\ \E d \in {0, 1} :
              /\ now + d <= MaxNow
              /\ now' = now + d
              /\ words' = [words EXCEPT ![index] =
                               markReviewed(@, remembered, now, now + d)]
    /\ disk' = saveToDisk(disk, words', o)
    /\ UNCHANGED <<db, mark, imp, written, expectRC, overlap>>
    /\ UNCHANGED pageVars

\* VocabStore.deleteWord(word)
IOSDeleteWord(w, o) ==
    /\ words' = RemoveAll(words, w)
    /\ disk' = saveToDisk(disk, words', o)
    /\ UNCHANGED <<db, now, mark, imp, written, expectRC, overlap>>
    /\ UNCHANGED pageVars

\* handleImport of the settings page: VocabStore.importJSON(from:) returns
\* (0, 0) when neither decoder accepts the data, calls saveToDisk() when an
\* entry was appended, and the toast reports the two counts
ImportJSON(f, o) ==
    /\ Len(words) + Len(f.words) <= MaxWords
    /\ words' = IF f.parsed THEN ImportLoop(words, f.words) ELSE words
    /\ IF f.parsed /\ ImportCount(words, f.words) > 0
       THEN disk' = saveToDisk(disk, words', o)
       ELSE disk' = disk
    /\ iosOut' = [toast    |-> "imported",
                  imported |-> IF f.parsed THEN ImportCount(words, f.words) ELSE 0,
                  skipped  |-> IF f.parsed
                               THEN Len(f.words) - ImportCount(words, f.words)
                               ELSE 0]
    /\ UNCHANGED <<db, now, mark, imp, written, expectRC, overlap>>
    /\ UNCHANGED <<look, ui, file, webOut, sideVars>>

\* DictionaryService.lookupFreeDictionary and lookupWiktionary: nil unless
\* the status is 200 and the body decodes
IOSDictionary(tier, text, o, t) ==
    IF o # "hit" THEN NoData
    ELSE IF tier = "free-dictionary"
         THEN Merge(WordEntryInit(text, t), [audioUrl |-> 1, meanings |-> 1])
         ELSE Merge(WordEntryInit(text, t), [audioUrl |-> Null, meanings |-> 2])

\* DictionaryService.translateText: nil for an echo and for every failure
IOSTranslate(text, langPair, o) ==
    IF o = "hit" THEN Translated(text, langPair) ELSE NullStr

\* WordEntry(word:translation:)
IOSTranslationEntry(text, translation, t) ==
    Merge(WordEntryInit(text, t),
          [audioUrl |-> Null, meanings |-> 0, translation |-> translation])

\* DictionaryService.handleWordLookup and handlePhraseLookup, the providers
\* coming to od (Free Dictionary), ow (Wiktionary) and ot (MyMemory); calls
\* and hits are history, as in the web lookup
IOSWaterfall(text, od, ow, ot, t) ==
    LET type == detectInputType(text)
        first == FirstTier(type)
        second == SecondTier(type)
        o1 == IF first = "free-dictionary" THEN od ELSE ow
        o2 == IF second = "free-dictionary" THEN od ELSE ow
        translation == IOSTranslate(text, "en|zh", ot)
        th == IF ot = "hit" THEN {"translation-only"} ELSE {}
    IN  IF IOSDictionary(first, text, o1, t) # NoData
        THEN [dictData |-> IOSDictionary(first, text, o1, t),
              translation |-> translation, inputType |-> type,
              source |-> first, calls |-> <<first>>, hits |-> {first} \cup th]
        ELSE IF IOSDictionary(second, text, o2, t) # NoData
        THEN [dictData |-> IOSDictionary(second, text, o2, t),
              translation |-> translation, inputType |-> type,
              source |-> second, calls |-> <<first, second>>,
              hits |-> {second} \cup th]
        ELSE IF translation # NullStr
        THEN [dictData |-> IOSTranslationEntry(text, translation, t),
              translation |-> translation, inputType |-> type,
              source |-> "translation-only",
              calls |-> <<first, second, "translation-only">>, hits |-> th]
        ELSE [dictData |-> NoData, translation |-> NullStr, inputType |-> type,
              source |-> NullStr,
              calls |-> <<first, second, "translation-only">>, hits |-> {}]

\* DictionaryService.handleChineseLookup
IOSChinese(text, od, ow, ot, t) ==
    LET english == IOSTranslate(text, "zh|en", ot)
        cleanEnglish == EnglishWord(english)
        d1 == IOSDictionary("free-dictionary", cleanEnglish, od, t)
        d2 == IOSDictionary("wiktionary", cleanEnglish, ow, t)
        dictData == IF d1 # NoData THEN d1 ELSE d2
    IN  IF english = NullStr
        THEN [dictData |-> NoData, translation |-> NullStr,
              inputType |-> "chinese", source |-> NullStr,
              calls |-> <<"zh2en">>, hits |-> {}]
        ELSE IF dictData # NoData
        THEN [dictData |-> Merge(dictData, [word |-> text, translation |-> english]),
              translation |-> english, inputType |-> "chinese",
              source |-> "free-dictionary",
              calls |-> IF d1 # NoData THEN <<"zh2en", "free-dictionary">>
                        ELSE <<"zh2en", "free-dictionary", "wiktionary">>,
              hits |-> {"zh2en"} \cup (IF d1 # NoData THEN {"free-dictionary"}
                                       ELSE {"wiktionary"})]
        ELSE [dictData |-> IOSTranslationEntry(text, english, t),
              translation |-> english, inputType |-> "chinese",
              source |-> "translation-only",
              calls |-> <<"zh2en", "free-dictionary", "wiktionary">>,
              hits |-> {"zh2en"}]

\* DictionaryService.lookup(text)
IOSLookup(text, od, ow, ot) ==
    /\ iosOut' = [toast |-> "lookup", text |-> text, at |-> now,
                  result |-> IF detectInputType(text) = "chinese"
                             THEN IOSChinese(text, od, ow, ot, now)
                             ELSE IOSWaterfall(text, od, ow, ot, now)]
    /\ UNCHANGED <<storeVars, look, ui, file, webOut, sideVars>>

\* performSearch: the lookup, then the message for no dictData, else the
\* auto-save of a word the store does not hold
PerformSearch(text, od, ow, ot, o) ==
    LET type == IOSDetectInputType(Chars(text))
        r == IF type = "chinese" THEN IOSChinese(text, od, ow, ot, now)
             ELSE IOSWaterfall(text, od, ow, ot, now)
        entry == Merge(r.dictData, [translation |-> r.translation])
    IN  /\ iosOut' = [toast |-> "search", text |-> text, result |-> r,
                      error |-> IF r.dictData # NoData THEN NullStr
                                ELSE IF type = "chinese" THEN ErrorChinese
                                ELSE ErrorNotFound]
        /\ IF r.dictData = NoData \/ IOSHasWord(words, r.dictData.word)
           THEN UNCHANGED <<words, disk>>
           ELSE /\ Len(words) < MaxWords
                /\ words' = Append(words, entry)
                /\ disk' = saveToDisk(disk, words', o)
        /\ UNCHANGED <<db, now, mark, imp, written, expectRC, overlap>>
        /\ UNCHANGED <<look, ui, file, webOut, sideVars>>

\* EbbinghausManager.dueWords(from: store.words)
IOSDueQuery ==
    /\ iosOut' = [toast |-> "due", at |-> now, value |-> dueWords(words, now)]
    /\ UNCHANGED <<storeVars, look, ui, file, webOut, sideVars>>

\* the statistics the iOS views compute from the store's words
IOSStatsQuery ==
    /\ iosOut' = [toast |-> "stats", at |-> now, value |-> stats(words, now)]
    /\ UNCHANGED <<storeVars, look, ui, file, webOut, sideVars>>

\* DictionaryService.handleChineseLookup: the key looked up for a translation
IOSBridge(cs) ==
    /\ iosOut' = [toast |-> "cleanEnglish", text |-> cs, value |-> cleanEnglishOf(cs)]
    /\ UNCHANGED <<storeVars, look, ui, file, webOut, sideVars>>

\* performSearch: dictService.detectInputType(text)
IOSClassify(cs) ==
    /\ iosOut' = [toast |-> "classified", text |-> cs,
                  value |-> IOSDetectInputType(cs)]
    /\ UNCHANGED <<storeVars, look, ui, file, webOut, sideVars>>

\* the files another device of the account leaves in the iCloud container
CloudFiles == {FileOf(<<IOSPayB>>), FileOf(<<IOSPayA, IOSPayB>>), Corrupt}

\* the iCloud container is written from outside the app
CloudChange(f) ==
    /\ disk.cloud # f
    /\ disk' = [disk EXCEPT !.cloud = f, !.last = "external", !.gone = {}]
    /\ UNCHANGED <<db, now, mark, imp, written, expectRC, overlap, words>>
    /\ UNCHANGED pageVars

\* the app starts: VocabStore.init() with words empty, then loadFromDisk();
\* on a new installation the documents directory holds no file
Launch(newInstall, o) ==
    LET d == IF newInstall
             THEN [disk EXCEPT !.local = NoFile, !.last = "none", !.gone = {}]
             ELSE disk
        r == loadFromDisk(d, o)
    IN  /\ words' = r.words
        /\ disk' = r.disk
        /\ iosOut' = [toast |-> "launched", from |-> r.from]
        /\ UNCHANGED <<db, now, mark, imp, written, expectRC, overlap>>
        /\ UNCHANGED <<look, ui, file, webOut, sideVars>>

\* The iOS store with every write to its files succeeding.
NextIOS ==
    \/ Tick
    \/ \E w \in RawWords : AddWord(w, "ok")
    \/ \E w \in RawWords : IOSDeleteWord(w, "ok")
    \/ \E w \in RawWords, r \in BOOLEAN : IOSReview(w, r, "ok")
    \/ \E f \in IOSFiles : ImportJSON(f, "ok")

SpecIOS == Init /\ [][NextIOS]_vars

\* One lookup at a time, in the web app or in the iOS app: the resolver
\* with every outcome of its providers.
NextResolve ==
    \/ \E t \in Texts : SearchStart(1, t)
    \/ \E o \in DictOutcomes : DictSettles(1, o)
    \/ \E o \in TransOutcomes : TransSettles(1, o)
    \/ AfterJoin(1)
    \/ \E o \in DictOutcomes : SecondSettles(1, o)
    \/ \E o \in LLMOutcomes : LLMSettles(1, o)
    \/ \E z \in {0, 1} : DefsSettle(1, z)
    \/ \E o \in TransOutcomes : ZhTranslates(1, o)
    \/ \E o \in LLMOutcomes : ZhLLMSettles(1, o)
    \/ \E o \in DictOutcomes : ZhDictSettles(1, o)
    \/ \E o \in DictOutcomes : ZhWikiSettles(1, o)
    \/ Render(1)
    \/ SearchSave(1)
    \/ \E t \in Texts : DeleteWord(t)
    \/ /\ look[1].pc = "idle"
       /\ \E t \in Texts, od \in DictOutcomes, ow \in DictOutcomes,
             ot \in TransOutcomes : IOSLookup(t, od, ow, ot)

SpecResolve == Init /\ [][NextResolve]_vars

\* the outcomes of a provider while searches overlap: an answer or a failed
\* fetch
Overlapping == {"hit", "transport"}

\* Searches issued while earlier ones are still in flight: the search
\* button does not wait for the lookup before it.
NextSearch ==
    \/ \E s \in Searches, t \in Texts : SearchStart(s, t)
    \/ \E s \in Searches, o \in Overlapping : DictSettles(s, o)
    \/ \E s \in Searches, o \in Overlapping : TransSettles(s, o)
    \/ \E s \in Searches : AfterJoin(s)
    \/ \E s \in Searches, o \in Overlapping : SecondSettles(s, o)
    \/ \E s \in Searches, o \in Overlapping : LLMSettles(s, o)
    \/ \E s \in Searches : DefsSettle(s, 1)
    \/ \E s \in Searches, o \in Overlapping : ZhTranslates(s, o)
    \/ \E s \in Searches, o \in Overlapping : ZhLLMSettles(s, o)
    \/ \E s \in Searches, o \in Overlapping : ZhDictSettles(s, o)
    \/ \E s \in Searches, o \in Overlapping : ZhWikiSettles(s, o)
    \/ \E s \in Searches : Render(s)
    \/ \E s \in Searches : SearchSave(s)

SpecSearch == Init /\ [][NextSearch]_vars

\* A search among the other writers of the store: one import and the
\* reviews run while the lookup of a word or a phrase and its auto-save are
\* in flight.
NextStale ==
    \/ \E t \in Texts \ {ZhText} : SearchStart(1, t)
    \/ \E o \in Overlapping : DictSettles(1, o)
    \/ \E o \in Overlapping : TransSettles(1, o)
    \/ AfterJoin(1)
    \/ \E o \in Overlapping : SecondSettles(1, o)
    \/ \E o \in Overlapping : LLMSettles(1, o)
    \/ DefsSettle(1, 1)
    \/ Render(1)
    \/ SearchSave(1)
    \/ imp.pc = "idle" /\ \E f \in WebFiles : ImportStart(f)
    \/ ImportCheck
    \/ ImportPut
    \/ ImportDone
    \/ \E w \in ReviewWords, r \in BOOLEAN : MarkRead(1, w, r)
    \/ MarkWrite(1)

SpecStale == Init /\ [][NextStale]_vars

\* the steps by which a lookup in flight goes on: the responses that
\* arrive and the continuations the event loop runs
Resumes ==
    \/ \E o \in Overlapping : DictSettles(1, o)
    \/ \E o \in Overlapping : TransSettles(1, o)
    \/ AfterJoin(1)
    \/ \E o \in Overlapping : SecondSettles(1, o)
    \/ \E o \in Overlapping : LLMSettles(1, o)
    \/ \E z \in {0, 1} : DefsSettle(1, z)
    \/ \E o \in Overlapping : ZhTranslates(1, o)
    \/ \E o \in Overlapping : ZhLLMSettles(1, o)
    \/ \E o \in Overlapping : ZhDictSettles(1, o)
    \/ \E o \in Overlapping : ZhWikiSettles(1, o)
    \/ Render(1)
    \/ SearchSave(1)

\* A lookup whose providers answer, fail, or stay silent.  A response that
\* arrives is delivered and the continuation of an await that has settled
\* is run: the steps of Resumes are weakly fair.
NextTimeout ==
    \/ \E t \in Texts : SearchStart(1, t)
    \/ Resumes
    \/ Silent(1)
    \/ \E t \in Texts : DeleteWord(t)

SpecTimeout == Init /\ [][NextTimeout]_vars /\ WF_vars(Resumes)

\* the web app has not been used; the iOS app has not been used
WebUnused == db = EmptyRec /\ imp.pc = "idle" /\ webOut.op = "none"

IOSUnused == words = <<>> /\ iosOut.toast = "none"

\* The scheduler queries over a store built by one import of an older
\* backup and by reviews: a run is a run of the web app or of the iOS app,
\* each with its own store.
NextDue ==
    \/ Tick
    \/ IOSUnused /\ imp.pc = "idle" /\ \E f \in DueFiles : ImportStart(f)
    \/ ImportCheck
    \/ ImportPut
    \/ ImportDone
    \/ \E w \in RawWords, r \in BOOLEAN : MarkRead(1, w, r)
    \/ MarkWrite(1)
    \/ IOSUnused /\ DueQuery
    \/ IOSUnused /\ NextReviewQuery
    \/ WebUnused /\ words = <<>> /\ \E f \in DueFiles : ImportJSON(f, "ok")
    \/ \E w \in RawWords, r \in BOOLEAN : IOSReview(w, r, "ok")
    \/ WebUnused /\ IOSDueQuery
    \/ IOSUnused /\ StatsQuery
    \/ WebUnused /\ IOSStatsQuery

SpecDue == Init /\ [][NextDue]_vars

\* Records saved and reviewed again and again, one review at a time.
NextLadder ==
    \/ Tick
    \/ \E wd \in WordDatas : SaveWord(wd)
    \/ \E w \in RawWords, r \in BOOLEAN : Review(w, r)

SpecLadder == Init /\ [][NextLadder]_vars

\* Searches of one word that overlap, the panels of the result shown and
\* the deletion of the word.
NextExtras ==
    \/ \E s \in Searches : SearchStart(s, "A")
    \/ \E s \in Searches : DictSettles(s, "hit")
    \/ \E s \in Searches : TransSettles(s, "hit")
    \/ \E s \in Searches : AfterJoin(s)
    \/ \E s \in Searches : DefsSettle(s, 1)
    \/ \E s \in Searches : Render(s)
    \/ \E s \in Searches : SearchSave(s)
    \/ \E w \in {"A", "a"}, type \in ExtraTypes : PanelOpen(w, type)
    \/ \E o \in ExtraOutcomes : PanelSettles(o)
    \/ DeleteWord("A")

SpecExtras == Init /\ [][NextExtras]_vars

\* One search and what the page does with its result, in the web app or
\* in the iOS app.
NextExhaust ==
    \/ IOSUnused /\ \E t \in Texts : SearchStart(1, t)
    \/ \E o \in DictOutcomes : DictSettles(1, o)
    \/ \E o \in TransOutcomes : TransSettles(1, o)
    \/ AfterJoin(1)
    \/ \E o \in DictOutcomes : SecondSettles(1, o)
    \/ \E o \in LLMOutcomes : LLMSettles(1, o)
    \/ \E z \in {0, 1} : DefsSettle(1, z)
    \/ \E o \in TransOutcomes : ZhTranslates(1, o)
    \/ \E o \in LLMOutcomes : ZhLLMSettles(1, o)
    \/ \E o \in DictOutcomes : ZhDictSettles(1, o)
    \/ \E o \in DictOutcomes : ZhWikiSettles(1, o)
    \/ Render(1)
    \/ SearchSave(1)
    \/ /\ WebUnused /\ ui = BlankPage /\ look[1].pc = "idle"
       /\ \E t \in Texts, od \in Overlapping, ow \in Overlapping,
             ot \in Overlapping : PerformSearch(t, od, ow, ot, "ok")

SpecExhaust == Init /\ [][NextExhaust]_vars

\* The bridging key computed for every translation, by the web app or by
\* the iOS app.
NextBridge ==
    \/ IOSUnused /\ \E cs \in TranslationTexts : Bridge(cs)
    \/ WebUnused /\ \E cs \in TranslationTexts : IOSBridge(cs)

SpecBridge == Init /\ [][NextBridge]_vars

\* The classifier of the search box applied to every typed text, by the
\* web app or by the iOS app.
NextClassify ==
    \/ IOSUnused /\ \E cs \in TypedTexts : Classify(cs)
    \/ WebUnused /\ \E cs \in TypedTexts : IOSClassify(cs)

SpecClassify == Init /\ [][NextClassify]_vars

\* The iOS store and its two locations: writes that succeed or fail, the
\* mirror written by another device, and the app started again.
NextMirror ==
    \/ \E w \in RawWords, o \in SaveOutcomes : AddWord(w, o)
    \/ \E w \in RawWords, o \in SaveOutcomes : IOSDeleteWord(w, o)
    \/ \E o \in SaveOutcomes : ImportJSON([parsed |-> TRUE, words |-> <<IOSPayA>>], o)
    \/ \E f \in CloudFiles : CloudChange(f)
    \/ \E n \in BOOLEAN, o \in SaveOutcomes \ {"nocloud"} : Launch(n, o)

SpecMirror == Init /\ [][NextMirror]_vars

\* ================================================================ claims
Min(a, b) == IF a <= b THEN a ELSE b

\* the number of finite intervals, L
L == Len(REVIEW_INTERVALS)

\* the interval the claims give for each level 0..6, in days
ClaimedDays == <<1, 2, 4, 7, 15, 30, 60>>

\* a step that is the write of review call p on a record that is stored
ReviewLands(p) == MarkWrite(p) /\ ToLower(mark[p].word) \in DOMAIN db

\* C1: markAsReviewed on a stored record with level l sets the level to
\* min(l + 1, 6) when remembered, so that the level never decreases, and to
\* 0 when not remembered.
C1_LevelTransition ==
    [][\A p \in Procs :
         ReviewLands(p) =>
           LET k == ToLower(mark[p].word) IN
             /\ db'[k].level = IF mark[p].remembered
                               THEN Min(db[k].level + 1, L) ELSE 0
             /\ mark[p].remembered => db'[k].level >= db[k].level]_vars

\* C2: every stored record has 0 <= level <= 6.
C2_LevelInRange == \A k \in DOMAIN db : db[k].level \in 0 .. L

\* C3: a review writes nextReviewAt = t + interval(new level), lastReviewedAt
\* = t and reviewCount = previous reviewCount + 1, for one instant t.
C3_ReviewOutput ==
    [][\A p \in Procs :
         ReviewLands(p) =>
           LET k == ToLower(mark[p].word) IN
             /\ db'[k].level \in 0 .. L
             /\ db'[k].nextReviewAt =
                  db'[k].lastReviewedAt + ClaimedDays[db'[k].level + 1] * Day
             /\ db'[k].reviewCount = db[k].reviewCount + 1]_vars

\* C4: when no review of a key is in flight, its reviewCount has grown by
\* the number of reviews of it that completed.
C4_ReviewCountExact ==
    \A k \in DOMAIN db :
        k \notin InFlight => db[k].reviewCount = expectRC[k]

\* C5: the fields written by interleaved updateWord calls on one key are all
\* in the record: every field written since the record was put holds the
\* value last written to it.
C5_NoLostUpdate ==
    \A k \in DOMAIN db :
        \A f \in DOMAIN written[k] :
            f \in DOMAIN db[k] /\ db[k][f] = written[k][f]

\* an extras fill ran between the read and the write of a review of "a",
\* and the review has written
C5_Interleaved ==
    /\ "a" \in overlap
    /\ "a" \notin InFlight
    /\ "a" \in DOMAIN db
    /\ "conjugationsData" \in DOMAIN db["a"]
    /\ "lastReviewedAt" \in DOMAIN db["a"]

\* what updateWord(w, u) may change
UpdateFrame(w, u) ==
    LET k == ToLower(w) IN
      IF k \in DOMAIN db
      THEN /\ DOMAIN db' = DOMAIN db
           /\ \A j \in DOMAIN db \ {k} : db'[j] = db[j]
           /\ DOMAIN db'[k] = DOMAIN db[k] \cup DOMAIN u
           /\ \A f \in DOMAIN u : db'[k][f] = u[f]
           /\ \A f \in DOMAIN db[k] \ DOMAIN u : db'[k][f] = db[k][f]
      ELSE db' = db

\* C6: updateWord on an existing key sets exactly the given fields and leaves
\* the record's other fields and the other records as they were; on an
\* absent key it changes nothing.
C6_UpdateFrame ==
    [][/\ \A w \in RawWords, u \in AppUpdates :
            UpdateWord(w, u) => UpdateFrame(w, u)
       /\ \A p \in Procs :
            MarkWrite(p) => UpdateFrame(mark[p].word, mark[p].updates)]_vars

\* an update has landed on "a" while "b" is stored
C6_Updated ==
    /\ {"a", "b"} \subseteq DOMAIN db
    /\ "conjugationsData" \in DOMAIN db["a"]
    /\ "lastReviewedAt" \in DOMAIN db["a"]

\* C7: no two stored records have keys that are equal ignoring case.
C7_UniqueKeys ==
    \A i, j \in 1 .. Len(words) :
        ToLower(words[i].word) = ToLower(words[j].word) => i = j

\* C8: no step of the import changes or removes a record that is in the
\* store, and an incoming record whose key is found increments skipped.
C8_ImportKeepsExisting ==
    [][/\ (ImportCheck \/ ImportPut) =>
            \A k \in DOMAIN db : k \in DOMAIN db' /\ db'[k] = db[k]
       /\ (ImportCheck /\ HasWord(imp.payload[imp.i])
              /\ ToLower(imp.payload[imp.i].word) \in DOMAIN db) =>
            imp'.skipped = imp.skipped + 1]_vars

\* C9: the record stored for an incoming record with a new key has every
\* field of the incoming record, with the same value.
C9_ImportVerbatim ==
    [][ImportPut =>
         LET e == imp.payload[imp.i]
             k == ToLower(e.word) IN
           \A f \in DOMAIN e \ {"word"} :
               f \in DOMAIN db'[k] /\ db'[k][f] = e[f]]_vars

C11_ImportRejects ==
    [][\A f \in IOSFiles :
         (ImportJSON(f, "ok") /\ (~f.parsed \/ f.words = <<>>)) =>
            /\ iosOut'.toast = "error"
            /\ words' = words]_vars

\* the store a backup file was exported from
StoreOf(f) ==
    [k \in {Parse(f[i]).word : i \in 1 .. Len(f)} |->
        Parse(f[CHOOSE i \in 1 .. Len(f) : Parse(f[i]).word = k])]

\* C12: when the import of an exported backup has finished, the store holds
\* the exported records, each equal field for field to the original.
C12_RoundTrip ==
    (imp.pc = "done" /\ file # <<>>) => db = StoreOf(file)

\* the tier lists of the two English classes
WordTiers == <<"free-dictionary", "wiktionary", "translation-only", "llm">>

PhraseTiers == <<"wiktionary", "free-dictionary", "translation-only", "llm">>

\* the source tag of the record of a tier, and its meanings
SourceTag(tier) == IF tier = "llm" THEN "deepseek" ELSE tier

TierMeanings(tier) ==
    CASE tier = "free-dictionary" -> 1 [] tier = "wiktionary" -> 2 [] OTHER -> 0

IsPrefix(a, b) == Len(a) <= Len(b) /\ a = SubSeq(b, 1, Len(a))

\* The tiers consulted are a beginning of the list, each but the last
\* missed, and the record is that of the last when it hit and null when the
\* whole list missed.
Waterfall(calls, hits, dictData, source, meanings, tiers) ==
    /\ Len(calls) >= 1
    /\ IsPrefix(calls, tiers)
    /\ \A i \in 1 .. Len(calls) - 1 : calls[i] \notin hits
    /\ IF calls[Len(calls)] \in hits
       THEN /\ dictData # NoData
            /\ source = SourceTag(calls[Len(calls)])
            /\ meanings = TierMeanings(calls[Len(calls)])
       ELSE /\ calls = tiers
            /\ dictData = NoData

WebWaterfall(l, tiers) ==
    Waterfall(l.calls, l.hits, l.result.dictData,
              IF l.result.dictData = NoData THEN NullStr
              ELSE l.result.dictData.source,
              IF l.result.dictData = NoData THEN 0
              ELSE l.result.dictData.meanings, tiers)

\* the iOS build has no LLM provider: its list ends at the translation
IOSTierList(r, tiers) ==
    Waterfall(r.calls, r.hits, r.dictData, r.source,
              IF r.dictData = NoData THEN 0 ELSE r.dictData.meanings,
              SubSeq(tiers, 1, 3))

Dictionaries == {"free-dictionary", "wiktionary"}

\* C15: for a Chinese query whose translation succeeded and whose lemma was
\* found, the record shows the Chinese text, its translation is the
\* unstripped translated string, and the auto-save stores it under the
\* English lemma, not under the Chinese text.
C15_BridgingIdentity ==
    [][\A s \in Searches :
         (SearchSave(s) /\ look[s].type = "chinese"
                        /\ look[s].hits \cap Dictionaries # {}) =>
            LET r == look[s].result IN
              /\ r.dictData.word = look[s].text
              /\ r.translation \in {"B.", "B!"}
              /\ DOMAIN db' = DOMAIN db \cup {EnglishWord(r.translation)}
              /\ look[s].text \notin DOMAIN db']_vars

\* C16: a lookup in which every provider missed returns no record, no
\* source tag and no translation.
C16_AllMiss ==
    /\ \A s \in Searches :
         (look[s].pc = "returned" /\ look[s].hits = {}) =>
            /\ look[s].result.dictData = NoData
            /\ look[s].result.translation = NullStr
    /\ (iosOut.toast = "lookup" /\ iosOut.result.hits = {}) =>
            /\ iosOut.result.dictData = NoData
            /\ iosOut.result.translation = NullStr
            /\ iosOut.result.source = NullStr

\* C17: no exception leaves lookupWord, and what it returns is a
\* LookupResult.
C17_NeverThrows ==
    \A s \in Searches :
        /\ look[s].pc # "thrown"
        /\ look[s].pc = "returned" =>
              DOMAIN look[s].result = {"dictData", "translation", "inputType"}

\* a lookup returned after a fetch failed and every tier was consulted
C17_ReturnedAfterFailure ==
    /\ look[1].pc = "returned"
    /\ look[1].erred
    /\ Len(look[1].calls) = 4
    /\ look[1].hits = {}

\* what the join of the two sub-fetches of a word or phrase lookup
\* guarantees, nothing being the value of a failed translation: the
\* continuation of Promise.all runs after both have settled, a failed branch
\* has its empty value, a branch that succeeded has its own value, and the
\* returned result carries the translation obtained and the record of the
\* first dictionary when it hit
JoinOf(nothing) ==
    \A s \in Searches :
       /\ AfterJoin(s) =>
            LET l == look[s] IN
              /\ l.dict # Pending
              /\ l.trans # PendingStr
              /\ FirstTier(l.type) \notin l.hits => l.dict = NoData
              /\ FirstTier(l.type) \in l.hits =>
                    l.dict = Dictionary(FirstTier(l.type), l.text, "hit")
              /\ "translation-only" \notin l.hits => l.trans = nothing
              /\ "translation-only" \in l.hits =>
                    l.trans = Translated(l.text, "en|zh-CN")
       /\ (look[s].pc # "returned" /\ look'[s].pc = "returned"
              /\ look'[s].type # "chinese") =>
            LET l == look'[s] IN
              /\ FirstTier(l.type) \in l.hits =>
                    l.result.dictData.source = FirstTier(l.type)
              /\ "translation-only" \in l.hits =>
                    l.result.translation = Translated(l.text, "en|zh-CN")
              /\ ("translation-only" \notin l.hits /\ "llm" \notin l.hits) =>
                    l.result.translation = nothing

\* C18 as claimed: the result is produced after both sub-fetches settled,
\* and a failed branch yields null.
C18_JoinNull == [][JoinOf(NullStr)]_vars

\* C18, amended: the result is produced after both sub-fetches settled; a
\* failed definition fetch yields null and a failed translation fetch the
\* placeholder string of translateWord; neither keeps the other's value out
\* of the result.
C18_JoinPlaceholder == [][JoinOf(Placeholder)]_vars

\* a word lookup returned the record of its first dictionary although its
\* translation fetch failed
C18_OneBranchFailed ==
    /\ look[1].pc = "returned"
    /\ look[1].type = "word"
    /\ "free-dictionary" \in look[1].hits
    /\ "translation-only" \notin look[1].hits
    /\ look[1].erred
    /\ look[1].result.dictData.source = "free-dictionary"

\* the calls whose lookupWord has come back and whose handleSearch has not
\* yet acted on it
Completing(s) == look[s].pc \in {"returned", "thrown"}

\* C19: a lookup that a newer search has superseded produces no UI-facing
\* effect when it completes, and once every lookup has completed the word
\* displayed and the current save key are those of the search issued last
C19_Superseded ==
    /\ [][\A s \in Searches :
             (Completing(s) /\ look[s].stale /\ look'[s].pc \notin {"returned", "thrown"})
                 => ui' = ui]_vars
    /\ []((ui.state = "result" /\ \A s \in Searches : look[s].pc \in {"idle", "save"})
             => /\ ToLower(ui.shown) = ToLower(ui.latest)
                /\ ui.saveKey = ui.shown)

\* the fields of a record that carry its review schedule
Schedule(rec) ==
    [f \in {"level", "reviewCount", "nextReviewAt", "addedAt"} |-> rec[f]]

\* C20: whatever lookups, reviews and imports interleave, the auto-save
\* that ends a handleSearch leaves every record that is in the store at the
\* moment of the write with its level, reviewCount, nextReviewAt and addedAt
C20_StaleSave ==
    [][\A s \in Searches :
          (look[s].pc = "save" /\ look'[s].pc = "idle")
              => \A k \in DOMAIN db :
                    k \in DOMAIN db' /\ Schedule(db'[k]) = Schedule(db[k])]_vars

\* C21: every lookup that has been started eventually returns a
\* LookupResult, also when a provider never responds
C21_EventuallyReturns ==
    (look[1].pc \in AwaitsFetch) ~> (look[1].pc = "returned")

\* the members of a sequence
Range(seq) == {seq[i] : i \in 1 .. Len(seq)}

\* C22: getDueWords at time now returns exactly the stored records with
\* nextReviewAt <= now and level < 6, each once; a mastered record is never
\* in the due set whatever its nextReviewAt; the iOS dueWords likewise
C22_DueSet ==
    [][/\ (webOut' # webOut /\ webOut'.op = "getDueWords") =>
            /\ Range(webOut'.value) =
                  {db[k] : k \in {j \in DOMAIN db :
                                    db[j].nextReviewAt <= now /\ db[j].level < 6}}
            /\ Len(webOut'.value) = Cardinality(Range(webOut'.value))
            /\ \A w \in Range(webOut'.value) : w.level < 6
       /\ (iosOut' # iosOut /\ iosOut'.toast = "due") =>
            /\ Range(iosOut'.value) =
                  {words[i] : i \in {j \in 1 .. Len(words) :
                       words[j].nextReviewAt <= now /\ words[j].level < 6}}
            /\ \A w \in Range(iosOut'.value) : w.level < 6]_vars

\* a query that returned a due record while a mastered record with a past
\* timestamp was in the store
C22_MasteredLeftOut ==
    /\ webOut.op = "getDueWords"
    /\ webOut.at = now
    /\ webOut.value = getDueWords(db, now)
    /\ Len(webOut.value) > 0
    /\ \E k \in DOMAIN db : db[k].level >= 6 /\ db[k].nextReviewAt <= now

\* the timestamps of the stored records that are in the future at t and
\* not mastered
FutureTimes(store, t) ==
    {store[k].nextReviewAt : k \in {j \in DOMAIN store :
                                      store[j].nextReviewAt > t /\ store[j].level < 6}}

\* C23: getNextReviewTime at time now returns the minimum nextReviewAt over
\* the stored records with nextReviewAt > now and level < 6, and null when
\* there is no such record
C23_NextReviewTime ==
    [][(webOut' # webOut /\ webOut'.op = "getNextReviewTime") =>
          IF FutureTimes(db, now) = {}
          THEN webOut'.value = Null
          ELSE /\ webOut'.value \in FutureTimes(db, now)
               /\ \A t \in FutureTimes(db, now) : webOut'.value <= t]_vars

\* an answer that is the lesser of two future timestamps, given while a
\* due or mastered record was in the store
C23_LeastOfTwo ==
    /\ webOut.op = "getNextReviewTime"
    /\ webOut.at = now
    /\ webOut.value = getNextReviewTime(db, now)
    /\ webOut.value # Null
    /\ Cardinality(FutureTimes(db, now)) >= 2

\* the days between a review and the review it schedules
IntervalDays(out) == (out.value.nextReviewAt - out.at)

\* C24: starting from a newly saved record, k consecutive remembered
\* reviews give level min(k, 6); the fifth gives level 5 and a next
\* interval of 30 days, the sixth level 6 and 60 days, and every further
\* one keeps level 6
C24_IntervalLadder ==
    (webOut.op = "markAsReviewed" /\ webOut.streak[webOut.word] # Null) =>
        LET k == webOut.streak[webOut.word] IN
          /\ webOut.value.level = Min(k, 6)
          /\ k = 5 => IntervalDays(webOut) = 30 * Day
          /\ k >= 6 => IntervalDays(webOut) = 60 * Day

\* the seventh remembered review in a row of a record saved new
C24_SeventhReview ==
    /\ webOut.op = "markAsReviewed"
    /\ webOut.streak[webOut.word] = 7
    /\ db[webOut.word] = webOut.value

\* a record that has been reviewed
Reviewed(rec) == "lastReviewedAt" \in DOMAIN rec /\ rec.lastReviewedAt # Null

\* C25: in every store state reached by saves, reviews and imports each
\* record has nextReviewAt > lastReviewedAt when lastReviewedAt is set and
\* nextReviewAt > addedAt when it has never been reviewed
C25_NextReviewInFuture ==
    \A k \in DOMAIN db :
        IF Reviewed(db[k])
        THEN db[k].nextReviewAt > db[k].lastReviewedAt
        ELSE db[k].nextReviewAt > db[k].addedAt

\* a record as saveWord and WordEntry.init create it at time t
CreatedAt(rec, key, t) ==
    /\ rec.word = key
    /\ rec.level = 0
    /\ rec.reviewCount = 0
    /\ rec.nextReviewAt = t + 1 * Day

\* the positions of the iOS store that hold a record of a key
Holding(ws, key) == {i \in 1 .. Len(ws) : ToLower(ws[i].word) = key}

\* C26: saveWord and addWord on a key not in the store create exactly one
\* record under the lower-cased key with level 0, reviewCount 0 and
\* nextReviewAt one day after the creation; on a key in the store they
\* replace the record and the store still holds exactly one record for it
C26_Upsert ==
    [][/\ \A wd \in WordDatas :
            SaveWord(wd) =>
              /\ DOMAIN db' = DOMAIN db \cup {ToLower(wd.word)}
              /\ CreatedAt(db'[ToLower(wd.word)], ToLower(wd.word), now)
              /\ \A k \in DOMAIN db \ {ToLower(wd.word)} : db'[k] = db[k]
       /\ \A w \in RawWords :
            AddWord(w, "ok") =>
              /\ Cardinality(Holding(words', ToLower(w))) = 1
              /\ \A i \in Holding(words', ToLower(w)) :
                    CreatedAt(words'[i], ToLower(w), now)]_vars

\* C27: after a local write of the iOS store whose mirror write also
\* succeeded, the secondary location holds exactly the snapshot of the local
\* file, whatever it held before: a record that only the secondary location
\* had is gone
C27_WholeSnapshot ==
    disk.last = "ok" =>
        /\ disk.local.present
        /\ disk.cloud = disk.local
        /\ \A k \in disk.gone : ~IOSHasWord(decodeWords(disk.cloud, <<>>), k)

\* a write that succeeded in both places and removed a record that only the
\* secondary location held
C27_MirrorRecordGone ==
    /\ disk.last = "ok"
    /\ disk.gone # {}
    /\ disk.local = FileOf(words)

\* C28: at startup the store loads from the local location when it is
\* present and only otherwise from the secondary location; after a load
\* from the secondary location the local file is written at once, and once
\* that write has succeeded local and secondary hold the snapshot that is
\* in memory
C28_LoadOrder ==
    [][\A n \in BOOLEAN, o \in SaveOutcomes \ {"nocloud"} :
         Launch(n, o) =>
           LET local == IF n THEN NoFile ELSE disk.local IN
             /\ local.present =>
                   /\ iosOut'.from = "local"
                   /\ words' = Decode(local.data)
                   /\ disk'.local = local
                   /\ disk'.cloud = disk.cloud
             /\ (~local.present /\ disk.cloud.present) =>
                   /\ iosOut'.from = "cloud"
                   /\ "data" \in DOMAIN disk.cloud =>
                         /\ words' = Decode(disk.cloud.data)
                         /\ o # "localfail" =>
                               /\ disk'.local = FileOf(words')
                               /\ disk'.cloud = disk'.local
             /\ (~local.present /\ ~disk.cloud.present) =>
                   /\ iosOut'.from = "none"
                   /\ words' = <<>>
                   /\ disk'.local = NoFile]_vars

\* a start on a new installation that took the records of the mirror and
\* wrote them to the local file
C28_LoadedFromMirror ==
    /\ iosOut.toast = "launched"
    /\ iosOut.from = "cloud"
    /\ words # <<>>
    /\ disk.local = FileOf(words)
    /\ disk.cloud = disk.local

\* C29: a failed write to the persistent store fails the operation that
\* made it: no add, delete or import of the iOS store completes as a
\* success while the local file does not hold the store it leaves
C29_FailuresReported ==
    [][\A o \in SaveOutcomes :
         /\ \A w \in RawWords :
               (AddWord(w, o) \/ IOSDeleteWord(w, o)) => disk'.local = FileOf(words')
         /\ \A f \in IOSFiles :
               (ImportJSON(f, o) /\ iosOut'.imported > 0)
                   => disk'.local = FileOf(words')]_vars

\* the class the specification gives a text: chinese with any CJK
\* codepoint, else phrase with more than one token between white space,
\* else word
HasCJK(cs) == \E i \in 1 .. Len(cs) : cs[i] \in CJK

Tokens(cs) ==
    Cardinality({i \in 1 .. Len(cs) :
                   cs[i] \notin JSWhite /\ (i = 1 \/ cs[i - 1] \in JSWhite)})

ClassOf(cs) ==
    IF HasCJK(cs) THEN "chinese"
    ELSE IF Tokens(cs) > 1 THEN "phrase"
    ELSE "word"

\* C30: the classifier gives every text, the empty one included, the class
\* of the specification (chinese with any CJK codepoint whatever the token
\* count, else phrase with more than one token, else word), and the web
\* and the iOS classifier give the same text the same class
C30_Classifier ==
    /\ webOut.op = "detectInputType" =>
          /\ webOut.value = ClassOf(webOut.text)
          /\ webOut.value = IOSDetectInputType(webOut.text)
    /\ iosOut.toast = "classified" =>
          /\ iosOut.value = ClassOf(iosOut.text)
          /\ iosOut.value = detectInputTypeOf(iosOut.text)

\* a key that is trimmed, does not end with punctuation and is left as it
\* is by a second normalization
Normal(k) ==
    /\ Trim(k, JSWhite) = k
    /\ (k = <<>> \/ k[Len(k)] \notin Punct)
    /\ englishWordOf(k) = k

\* C31: the bridging key of every translation is the translation
\* lower-cased, trimmed and without its trailing run of . ! ? , ; : and it is
\* trimmed of white space, does not end with one of those characters, and
\* is unchanged by a second normalization ("H." gives "h")
C31_BridgingKey ==
    /\ webOut.op = "englishWord" =>
          /\ Normal(webOut.value)
          /\ webOut.text = <<"H", ".">> => webOut.value = <<"h">>
    /\ iosOut.toast = "cleanEnglish" =>
          /\ Normal(iosOut.value)
          /\ iosOut.text = <<"H", ".">> => iosOut.value = <<"h">>

NoRepeat(calls) ==
    \A i, j \in 1 .. Len(calls) : calls[i] = calls[j] => i = j

\* the LookupResult of a web word or phrase lookup, given the providers
\* that had a usable answer and nothing else
EnglishAnswer(l) ==
    LET first == FirstTier(l.type)
        second == SecondTier(l.type)
        translation == IF "translation-only" \in l.hits
                       THEN Translated(l.text, "en|zh-CN") ELSE Placeholder
        defs(d) == Merge(d, [defsZh |-> l.result.dictData.defsZh])
    IN  IF first \in l.hits
        THEN [dictData |-> defs(Dictionary(first, l.text, "hit")),
              translation |-> translation, inputType |-> l.type]
        ELSE IF second \in l.hits
        THEN [dictData |-> defs(Dictionary(second, l.text, "hit")),
              translation |-> translation, inputType |-> l.type]
        ELSE IF "translation-only" \in l.hits
        THEN [dictData |-> createTranslationOnlyResult(l.text),
              translation |-> translation, inputType |-> l.type]
        ELSE IF "llm" \in l.hits
        THEN [dictData |-> Merge(createTranslationOnlyResult(l.text),
                                 [source |-> "deepseek"]),
              translation |-> LLMReply(l.text), inputType |-> l.type]
        ELSE [dictData |-> NoData, translation |-> translation,
              inputType |-> l.type]

\* the LookupResult of a web Chinese lookup, given the providers that had a
\* usable answer
ChineseAnswer(l) ==
    LET english == IF "zh2en" \in l.hits THEN Translated(l.text, "zh-CN|en")
                   ELSE LLMReply(l.text)
    IN  IF l.hits \cap {"zh2en", "llm"} = {}
        THEN [dictData |-> createTranslationOnlyResult(l.text),
              translation |-> l.text, inputType |-> "chinese"]
        ELSE [dictData |->
                  IF "free-dictionary" \in l.hits
                  THEN Bridged(lookupFreeDictionary(EnglishWord(english), "hit"), l.text)
                  ELSE IF "wiktionary" \in l.hits
                  THEN Bridged(lookupWiktionary(EnglishWord(english), "hit"), l.text)
                  ELSE createTranslationOnlyResult(l.text),
              translation |-> english, inputType |-> "chinese"]

\* the outcome of a provider of an iOS lookup as its history tells it
Heard(r, provider) == IF provider \in r.hits THEN "hit" ELSE "notfound"

FailureMessage(type) == IF type = "chinese" THEN ErrorChinese ELSE ErrorNotFound

\* C33: a search in which every provider missed ends with the failure
\* message of its input class (one for Chinese, another for a word or a
\* phrase) and saves no record
C33_Exhausted ==
    [][(\A s \in Searches :
          /\ (Render(s) /\ look[s].pc = "returned" /\ look[s].hits = {}) =>
                /\ ui'.state = "error"
                /\ ui'.shown = FailureMessage(look[s].type)
                /\ look'[s].pc = "idle"
          /\ SearchSave(s) => look[s].hits # {})
       /\ ((iosOut'.toast = "search" /\ iosOut'.result.hits = {}) =>
              /\ iosOut'.error = FailureMessage(iosOut'.result.inputType)
              /\ words' = words)]_vars

\* the keys of the records of the iOS store
StoredKeys(ws) == {ToLower(ws[i].word) : i \in 1 .. Len(ws)}

\* C34: a key leaves the store only by a deleteWord of that key: no save,
\* review, update, import, mirror write or reload of the files by the
\* running app (a reload after a failed save included) removes a key
C34_OnlyDeleteRemoves ==
    [][(\A k \in DOMAIN db \ DOMAIN db' :
           \E t \in Texts \cup RawWords : ToLower(t) = k /\ DeleteWord(t))
       /\ (\A k \in StoredKeys(words) \ StoredKeys(words') :
             \/ \E w \in RawWords, o \in SaveOutcomes :
                   ToLower(w) = k /\ IOSDeleteWord(w, o)
             \/ \E o \in SaveOutcomes : Launch(TRUE, o))]_vars

\* the fields that cache extras
ExtraFields == {CacheKey(type) : type \in ExtraTypes}

\* C35: extras stored on a record stay on it for as long as the record is
\* not deleted, and a load of a panel whose extras are on the record shows
\* them and calls no LLM; a fetch that fails, an unparsable reply included,
\* leaves the record as it is and the load makes no second call
C35_ExtrasCached ==
    [][(\A k \in DOMAIN db \cap DOMAIN db', f \in ExtraFields :
           f \in DOMAIN db[k] => (f \in DOMAIN db'[k] /\ db'[k][f] = db[k][f]))
       /\ (\A w \in {"A", "a"}, type \in ExtraTypes :
             (PanelOpen(w, type) /\ ToLower(w) \in DOMAIN db
                  /\ CacheKey(type) \in DOMAIN db[ToLower(w)]) =>
                /\ panel'.pc = "loaded"
                /\ panel'.calls = 0
                /\ panel'.data = db[ToLower(w)][CacheKey(type)])
       /\ (\A o \in ExtraOutcomes \ {"hit"} :
             PanelSettles(o) =>
                /\ db' = db
                /\ panel'.pc = "error"
                /\ panel'.calls = 1)]_vars

\* ------------------------------------------------------------------- C36
\* the records of a store or of a words array that carry the scheduler's fields
Scheduled(ws) ==
    {ws[i] : i \in {j \in DOMAIN ws :
                       {"level", "reviewCount", "nextReviewAt", "lastReviewedAt"}
                           \subseteq DOMAIN ws[j]}}

\* the words array as a store keyed by the lower-cased word
AsStore(ws) ==
    [k \in {ToLower(ws[i].word) : i \in DOMAIN ws} |->
        ws[CHOOSE i \in DOMAIN ws : ToLower(ws[i].word) = k]]

UniqueKeys(ws) ==
    \A i, j \in DOMAIN ws : ToLower(ws[i].word) = ToLower(ws[j].word) => i = j

SeqRange(q) == {q[i] : i \in DOMAIN q}

\* C36: the web scheduler and the iOS EbbinghausManager agree: for every
\* record either store holds, either answer and either pair of clock reads,
\* a review gives the same new level, review count and interval to the next
\* review; over the same records and the same time both select the same due
\* words and report the same total, mastered, due and learning counts.
C36_SchedulersAgree ==
    /\ \A e \in Scheduled(getAllWords(db)) \cup Scheduled(words) :
         \A r \in BOOLEAN, d \in {0, 1} :
            LET web == Merge(e, ReviewUpdates(e, r, now, now + d))
                ios == markReviewed(e, r, now, now + d)
            IN  /\ web.level = ios.level
                /\ web.reviewCount = ios.reviewCount
                /\ web.nextReviewAt - now = ios.nextReviewAt - now
                /\ web.lastReviewedAt = ios.lastReviewedAt
    /\ dueWords(getAllWords(db), now) = getDueWords(db, now)
    /\ stats(getAllWords(db), now) = getReviewStats(db, now)
    /\ UniqueKeys(words) =>
          /\ SeqRange(getDueWords(AsStore(words), now)) = SeqRange(dueWords(words, now))
          /\ getReviewStats(AsStore(words), now) = stats(words, now)

\* both apps have reported statistics over a store with a mastered word and
\* a due word, after a review
C36_StatsReported ==
    \/ /\ webOut.op = "getReviewStats"
       /\ webOut.value.mastered >= 1
       /\ webOut.value.due >= 1
       /\ \E k \in DOMAIN db : db[k].reviewCount > 1
    \/ /\ iosOut.toast = "stats"
       /\ iosOut.value.mastered >= 1
       /\ iosOut.value.due >= 1
       /\ \E i \in DOMAIN words : words[i].reviewCount > 1

\* ------------------------------------------------------- review session
\* shuffleArray: the orders of an array
Shuffles(q) ==
    {[i \in 1 .. Len(q) |-> q[f[i]]] :
        f \in {g \in [1 .. Len(q) -> 1 .. Len(q)] :
                  \A i, j \in 1 .. Len(q) : g[i] = g[j] => i = j}}

\* refreshReview with due words: the shuffled queue, index and counters reset
RefreshReview ==
    /\ \A p \in Procs : mark[p].pc = "idle"
    /\ Len(getDueWords(db, now)) > 0
    /\ \E q \in Shuffles(getDueWords(db, now)) :
         session' = [queue |-> [i \in 1 .. Len(q) |-> q[i].word], index |-> 0,
                     remembered |-> 0, forgot |-> 0,
                     reviewed |-> <<>>, complete |-> <<>>]
    /\ UNCHANGED <<storeVars, look, ui, file, iosOut, webOut, panel, retr>>

\* handleReviewAction up to the read inside markAsReviewed: the bounds test,
\* the card under reviewIndex, the counter, getAllWords and the updates
ReviewPress(p, remembered) ==
    /\ mark[p].pc = "idle"
    /\ \A q \in Procs : q < p => mark[q].pc # "idle"
    /\ session.index < Len(session.queue)
    /\ LET w == session.queue[session.index + 1] IN
         /\ session' = [session EXCEPT
                !.remembered = IF remembered THEN @ + 1 ELSE @,
                !.forgot = IF remembered THEN @ ELSE @ + 1,
                !.reviewed = Append(@, w)]
         /\ IF ToLower(w) \in DOMAIN db
            THEN \E d \in {0, 1} :
                   /\ now + d <= MaxNow
                   /\ now' = now + d
                   /\ mark' = [mark EXCEPT ![p] =
                         [pc |-> "write", word |-> w, remembered |-> remembered,
                          entry |-> db[ToLower(w)],
                          updates |-> ReviewUpdates(db[ToLower(w)], remembered,
                                                    now, now + d)]]
            ELSE /\ mark' = [mark EXCEPT ![p] = [pc |-> "absent", word |-> w]]
                 /\ UNCHANGED now
    /\ UNCHANGED <<db, imp, written, expectRC, overlap, words, disk>>
    /\ UNCHANGED <<look, ui, file, iosOut, webOut, panel, retr>>

\* handleReviewAction from markAsReviewed's updateWord on: the write, then
\* reviewIndex++ and the completion screen or the next card
ReviewSettle(p) ==
    /\ mark[p].pc \in {"write", "absent"}
    /\ IF mark[p].pc = "write"
       THEN /\ db' = ReviewPut(db, mark[p].word, mark[p].entry, mark[p].updates)
            /\ written' = Noted(written, ToLower(mark[p].word), mark[p].updates)
            /\ expectRC' = [k \in DOMAIN expectRC |->
                               IF k = ToLower(mark[p].word) THEN expectRC[k] + 1
                               ELSE expectRC[k]]
       ELSE UNCHANGED <<db, written, expectRC>>
    /\ mark' = [mark EXCEPT ![p] = IdleCall]
    /\ session' = [session EXCEPT
           !.index = @ + 1,
           !.complete = IF session.index + 1 >= Len(session.queue) /\ @ = <<>>
                        THEN <<session.remembered, session.forgot>> ELSE @]
    /\ UNCHANGED <<now, imp, overlap, words, disk>>
    /\ UNCHANGED <<look, ui, file, iosOut, webOut, panel, retr>>

\* A review session over the due words of an imported backup, the answer
\* buttons staying enabled while an answer is being written.
NextSession ==
    \/ Tick
    \/ imp.pc = "idle" /\ db = EmptyRec /\ \E f \in DueFiles : ImportStart(f)
    \/ ImportCheck
    \/ ImportPut
    \/ ImportDone
    \/ RefreshReview
    \/ \E p \in Procs, r \in BOOLEAN : ReviewPress(p, r)
    \/ \E p \in Procs : ReviewSettle(p)

SpecSession == Init /\ [][NextSession]_vars

\* ------------------------------------------------------------------- C37
\* C37: in a review session the words handed to markAsReviewed are the
\* cards of the queue, each once and in queue order, also when an answer
\* button is pressed while the previous answer is being written; when the
\* completion screen is drawn every card has been reviewed and
\* remembered + forgot is the queue length.
C37_EachCardOnce ==
    /\ IsPrefix(session.reviewed, session.queue)
    /\ session.complete # <<>> =>
          /\ session.reviewed = session.queue
          /\ session.complete[1] + session.complete[2] = Len(session.queue)

\* ------------------------------------------------------- import failures
\* a word of a payload record that is not a string, as in {"word": 5}
NotAString == "<5>"

PayBadWord == [word |-> NotAString, level |-> 1, reviewCount |-> 0]

\* backups with a record whose word is not a string among the others
BrokenFiles ==
    {[parsed |-> TRUE, words |-> pl] :
        pl \in UNION {[1 .. n -> {PayA, PayB, PayBadWord}] : n \in 1 .. MaxPayload}}

\* the loop has reached a record with a truthy word that is not a string
AtBadWord ==
    /\ imp.pc = "loop"
    /\ imp.i <= Len(imp.payload)
    /\ imp.payload[imp.i].word = NotAString

\* await getWord(entry.word) on such a record: word.toLowerCase is not a
\* function, getWord rejects and importWords rejects with it
ImportCheckThrows ==
    /\ AtBadWord
    /\ imp' = [imp EXCEPT !.pc = "error"]
    /\ UNCHANGED <<db, now, mark, written, expectRC, overlap, words, disk>>
    /\ UNCHANGED pageVars

\* the put transaction failing: request.onerror rejects the promise importWords
\* awaits
ImportPutFails ==
    /\ imp.pc = "put"
    /\ imp' = [imp EXCEPT !.pc = "error"]
    /\ UNCHANGED <<db, now, mark, written, expectRC, overlap, words, disk>>
    /\ UNCHANGED pageVars

\* Imports into an empty or a filled store, with records getWord rejects
\* and with store writes that fail.
NextAtomic ==
    \/ Tick
    \/ \E f \in BrokenFiles \cup {[parsed |-> FALSE, words |-> <<>>],
                                   [parsed |-> TRUE, words |-> <<>>]} :
          ImportStart(f)
    \/ ~AtBadWord /\ ImportCheck
    \/ ImportCheckThrows
    \/ ImportPut
    \/ ImportPutFails
    \/ ImportDone

SpecAtomic == Init /\ [][NextAtomic]_vars

\* ------------------------------------------------------------------- C38
\* C38: import is all-or-nothing: when importWords has failed, on an
\* unparsable or empty file, on a malformed record or on a failed store
\* write, none of the payload's records has been added to the store.
C38_AllOrNothing ==
    imp.pc = "error" => imp.added = 0

\* ----------------------------------------------------------- retranslate
\* the user types into the search box
EditBox(t) ==
    /\ retr.box # t
    /\ retr' = [retr EXCEPT !.box = t]
    /\ UNCHANGED <<storeVars, look, ui, file, iosOut, webOut, panel, session>>

\* handleRetranslate up to its await: the key is configured, the text is
\* the content of the search box, the button is disabled
RetranslateStart ==
    /\ retr.pc = "idle"
    /\ ui.state = "result"
    /\ retr.box # ""
    /\ retr' = [pc |-> "translating", box |-> retr.box, text |-> retr.box]
    /\ UNCHANGED <<storeVars, look, ui, file, iosOut, webOut, panel, session>>

\* handleRetranslate from the LLM's answer on: currentSaveKey is read now,
\* the record under it is updated when it exists; wrote is history
RetranslateSettles(o) ==
    /\ retr.pc = "translating"
    /\ LET newTranslation == translateWithDeepSeek(retr.text, o)
           k == ToLower(ui.saveKey)
           updates == [translation |-> newTranslation] IN
         IF newTranslation # NullStr /\ ui.saveKey # "" /\ k \in DOMAIN db
         THEN /\ db' = updateWord(db, ui.saveKey, updates)
              /\ written' = Noted(written, k, updates)
              /\ overlap' = IF k \in InFlight THEN overlap \cup {k} ELSE overlap
              /\ retr' = [pc |-> "idle", box |-> retr.box,
                          wrote |-> [key |-> k, text |-> retr.text]]
         ELSE /\ UNCHANGED <<db, written, overlap>>
              /\ retr' = [pc |-> "idle", box |-> retr.box]
    /\ UNCHANGED <<now, mark, imp, expectRC, words, disk>>
    /\ UNCHANGED <<look, ui, file, iosOut, webOut, panel, session>>

\* Searches of the words typed into the search box, every provider
\* answering, among edits of the box, retranslations and deletions.
NextRetranslate ==
    \/ \E t \in RawWords : EditBox(t)
    \/ \E s \in Searches : retr.box # "" /\ SearchStart(s, retr.box)
    \/ \E s \in Searches : DictSettles(s, "hit")
    \/ \E s \in Searches : TransSettles(s, "hit")
    \/ \E s \in Searches : AfterJoin(s)
    \/ \E s \in Searches : DefsSettle(s, 1)
    \/ \E s \in Searches : Render(s)
    \/ \E s \in Searches : SearchSave(s)
    \/ RetranslateStart
    \/ \E o \in {"hit", "empty"} : RetranslateSettles(o)
    \/ \E w \in RawWords : DeleteWord(w)

SpecRetranslate == Init /\ [][NextRetranslate]_vars

\* ------------------------------------------------------------------- C39
\* C39: handleRetranslate stores a new translation only on the record of
\* the text that was translated: when it has written the translation of
\* key k, the text it sent to the LLM is the query saved under k, whatever
\* the order of edits of the search box, searches and retranslate clicks.
C39_RetranslateOwnRecord ==
    "wrote" \in DOMAIN retr => ToLower(retr.wrote.text) = retr.wrote.key

\* ------------------------------------------------------------------- C40
\* C40: a review never recreates a record: markAsReviewed on a key that is
\* absent, or that was deleted between its read of the store and its
\* write, leaves the store without that key and changes no other record.
C40_ReviewNeverRecreates ==
    [][(\A p \in Procs :
          (MarkWrite(p) /\ ToLower(mark[p].word) \notin DOMAIN db) => db' = db)
       /\ (\A p \in Procs, w \in RawWords, r \in BOOLEAN :
             (MarkRead(p, w, r) /\ ToLower(w) \notin DOMAIN db) =>
                 (db' = db /\ mark' = mark))]_vars

\* a review has read a record that was deleted before the review's write
C40_DeletedInFlight ==
    \E p \in Procs :
        /\ mark[p].pc = "write"
        /\ ToLower(mark[p].word) \notin DOMAIN db
        /\ db # EmptyRec

====
